---- MODULE Spec2Model ----
(***************************************************************************)
(* A model of tidy-rename: the analysis pipeline of AudioProcessor         *)
(* (processor.go), the category rule engine (categories.go) and the       *)
(* audio analyzer.  Strings are TLA+ strings; TLC evaluates Len, SubSeq,   *)
(* Head, Tail and \o on them, so substring tests are computed character by *)
(* character as strings.Contains computes them.                            *)
(***************************************************************************)
EXTENDS Integers, Sequences, FiniteSets, TLC

(***************************************************************************)
(* Bounds of the model.                                                    *)
(***************************************************************************)
\* the largest number of audio files the scan finds
MaxFiles == 2

\* the longest name of the rule-engine specification, in fragments
MaxSegs == 3

\* the largest number of records of the duplicate-detection specification
MaxDupFiles == 4

\* the largest number of files of the worker-pool specification
MaxPoolFiles == 9

\* the largest number of records of the name-generation specification
MaxNameFiles == 3

VARIABLES
  pc,             \* the position of Process
  dir,            \* the audio files under SourceDir, in walk order
  audioFiles,     \* ap.audioFiles
  fingerprints,   \* ap.fingerprints
  jobs,           \* the jobs channel
  jobsClosed,
  sent,           \* the number of jobs the sender goroutine has sent
  workers,        \* the worker goroutines
  results,        \* the results channel
  resultsClosed,
  processed,      \* the collector's counter
  ret,            \* what Process returned
  config,         \* ap.config
  disk,           \* the files on disk: path -> content
  name,           \* the argument of a rule-engine call
  inferred,       \* what InferCategory returned for it
  rpc,            \* the position of the rule-engine call
  call,           \* a call of one of the other functions: arguments and result
  pool            \* the worker pool of analyzeAudioFiles with the jobs counted

pipelineVars ==
  << pc, dir, audioFiles, fingerprints, jobs, jobsClosed, sent, workers, results,
     resultsClosed, processed, ret, config, disk >>

ruleVars ==
  << name, inferred, rpc, call >>

vars ==
  << pc, dir, audioFiles, fingerprints, jobs, jobsClosed, sent, workers, results,
     resultsClosed, processed, ret, config, disk, name, inferred, rpc, call, pool >>

(***************************************************************************)
(* Package strings.                                                        *)
(***************************************************************************)
LowerChar(c) ==
  CASE c = "A" -> "a"
      [] c = "B" -> "b"
      [] c = "C" -> "c"
      [] c = "D" -> "d"
      [] c = "E" -> "e"
      [] c = "F" -> "f"
      [] c = "G" -> "g"
      [] c = "H" -> "h"
      [] c = "I" -> "i"
      [] c = "J" -> "j"
      [] c = "K" -> "k"
      [] c = "L" -> "l"
      [] c = "M" -> "m"
      [] c = "N" -> "n"
      [] c = "O" -> "o"
      [] c = "P" -> "p"
      [] c = "Q" -> "q"
      [] c = "R" -> "r"
      [] c = "S" -> "s"
      [] c = "T" -> "t"
      [] c = "U" -> "u"
      [] c = "V" -> "v"
      [] c = "W" -> "w"
      [] c = "X" -> "x"
      [] c = "Y" -> "y"
      [] c = "Z" -> "z"
      [] OTHER -> c

UpperChar(c) ==
  CASE c = "a" -> "A"
      [] c = "b" -> "B"
      [] c = "c" -> "C"
      [] c = "d" -> "D"
      [] c = "e" -> "E"
      [] c = "f" -> "F"
      [] c = "g" -> "G"
      [] c = "h" -> "H"
      [] c = "i" -> "I"
      [] c = "j" -> "J"
      [] c = "k" -> "K"
      [] c = "l" -> "L"
      [] c = "m" -> "M"
      [] c = "n" -> "N"
      [] c = "o" -> "O"
      [] c = "p" -> "P"
      [] c = "q" -> "Q"
      [] c = "r" -> "R"
      [] c = "s" -> "S"
      [] c = "t" -> "T"
      [] c = "u" -> "U"
      [] c = "v" -> "V"
      [] c = "w" -> "W"
      [] c = "x" -> "X"
      [] c = "y" -> "Y"
      [] c = "z" -> "Z"
      [] OTHER -> c

RECURSIVE ToLower(_)
ToLower(s) ==
  IF s = "" THEN "" ELSE LowerChar(Head(s)) \o ToLower(Tail(s))

RECURSIVE ToUpper(_)
ToUpper(s) ==
  IF s = "" THEN "" ELSE UpperChar(Head(s)) \o ToUpper(Tail(s))

Contains(s, substr) ==
  \E i \in 1..(Len(s) - Len(substr) + 1) : SubSeq(s, i, i + Len(substr) - 1) = substr

HasPrefix(s, prefix) ==
  Len(s) >= Len(prefix) /\ SubSeq(s, 1, Len(prefix)) = prefix

HasSuffix(s, suffix) ==
  Len(s) >= Len(suffix) /\ SubSeq(s, Len(s) - Len(suffix) + 1, Len(s)) = suffix

(***************************************************************************)
(* The category rule engine.  Confidence weights are in tenths.            *)
(***************************************************************************)
CategoryRules ==
  <<
    [ Category   |-> "SFX_Drone",
      Keywords   |-> << "drone" >>,
      Exclusions |-> <<  >>,
      Priority   |-> 10,
      Confidence |-> 8 ],
    [ Category   |-> "Music",
      Keywords   |-> << "loop" >>,
      Exclusions |-> <<  >>,
      Priority   |-> 10,
      Confidence |-> 8 ],
    [ Category   |-> "SFX_Riser",
      Keywords   |-> << "riser" >>,
      Exclusions |-> <<  >>,
      Priority   |-> 10,
      Confidence |-> 8 ],
    [ Category   |-> "SFX_Time",
      Keywords   |-> << "slowmotion", "slow motion", "slow-motion", "timelapse", "time lapse",
                      "time-lapse" >>,
      Exclusions |-> <<  >>,
      Priority   |-> 10,
      Confidence |-> 8 ],
    [ Category   |-> "SFX_Transition",
      Keywords   |-> << "transition" >>,
      Exclusions |-> <<  >>,
      Priority   |-> 10,
      Confidence |-> 7 ],
    [ Category   |-> "SFX_Whoosh",
      Keywords   |-> << "whoosh" >>,
      Exclusions |-> <<  >>,
      Priority   |-> 10,
      Confidence |-> 8 ],
    [ Category   |-> "SFX_Voice",
      Keywords   |-> << "scream", "voice", "dialogue", "speech", "male", "female", "grunt", "groan" >>,
      Exclusions |-> <<  >>,
      Priority   |-> 8,
      Confidence |-> 8 ],
    [ Category   |-> "SFX_Creature",
      Keywords   |-> << "creature", "monster", "animal", "beast", "roar", "growl", "howl", "moan",
                      "cat", "dog", "cow", "rooster", "monkey", "meow", "bark", "moo", "pur" >>,
      Exclusions |-> <<  >>,
      Priority   |-> 8,
      Confidence |-> 8 ],
    [ Category   |-> "Ambient",
      Keywords   |-> << "wind", "rain", "thunder", "storm", "water", "ocean", "forest", "nature",
                      "atmos", "atmosphere", "ambient", "ambience", "flame", "flames", "burning",
                      "ember", "campfire", "bonfire", "jungle", "rainforest", "insect", "cicada",
                      "cricket", "frog", "waterfall", "river", "stream", "wave", "beach",
                      "underwater", "monsoon", "downpour", "raindrop", "lightning", "wind chime",
                      "windchime", "city", "urban", "traffic", "crowd", "market", "construction",
                      "airport", "station", "restaurant", "kitchen", "street", "highway",
                      "freeway", "intersection", "walla", "room tone", "roomtone" >>,
      Exclusions |-> <<  >>,
      Priority   |-> 9,
      Confidence |-> 8 ],
    [ Category   |-> "SFX_Weapon",
      Keywords   |-> << "gun", "weapon", "shot", "bullet", "sword", "slash", "punch", "combat",
                      "gunfire", "firearm", "samurai", "kung fu", "karate" >>,
      Exclusions |-> <<  >>,
      Priority   |-> 7,
      Confidence |-> 8 ],
    [ Category   |-> "SFX_Impact",
      Keywords   |-> << "explosion", "explode", "impact", "crash", "slam", "thud", "bang", "boom",
                      "gong", "hit" >>,
      Exclusions |-> <<  >>,
      Priority   |-> 7,
      Confidence |-> 8 ],
    [ Category   |-> "SFX_Footstep",
      Keywords   |-> << "footstep", "step", "walk", "run", "jump", "land" >>,
      Exclusions |-> <<  >>,
      Priority   |-> 7,
      Confidence |-> 8 ],
    [ Category   |-> "SFX_Vehicle",
      Keywords   |-> << "vehicle", "car", "engine", "motor", "tire", "wheel", "drive", "bus",
                      "train", "truck", "motorbike", "motorcycle", "tuktuk", "aeroplane",
                      "airplane", "ferry", "boat", "driveby", "drive-by", "pass by", "passby",
                      "hoot", "honk", "horn" >>,
      Exclusions |-> << "atmos", "atmosphere", "ambient", "ambience", "room tone", "roomtone" >>,
      Priority   |-> 6,
      Confidence |-> 8 ],
    [ Category   |-> "SFX_UI",
      Keywords   |-> << "ui", "interface", "button", "click", "select", "hover", "menu",
                      "notification" >>,
      Exclusions |-> <<  >>,
      Priority   |-> 7,
      Confidence |-> 9 ],
    [ Category   |-> "SFX_Alarm",
      Keywords   |-> << "alarm", "alert", "siren", "warning", "beep", "buzz" >>,
      Exclusions |-> <<  >>,
      Priority   |-> 7,
      Confidence |-> 8 ],
    [ Category   |-> "SFX_Mechanical",
      Keywords   |-> << "mechanical", "machine", "gear", "whir", "clank", "robot" >>,
      Exclusions |-> <<  >>,
      Priority   |-> 6,
      Confidence |-> 8 ],
    [ Category   |-> "SFX_Object",
      Keywords   |-> << "door", "open", "close", "creak", "squeak", "hinge", "object", "item",
                      "pickup", "drop" >>,
      Exclusions |-> <<  >>,
      Priority   |-> 6,
      Confidence |-> 8 ],
    [ Category   |-> "SFX_Percussion",
      Keywords   |-> << "drum", "percussion", "beat", "kick", "snare", "cymbal", "gong",
                      "tambourine", "bell", "clap" >>,
      Exclusions |-> <<  >>,
      Priority   |-> 7,
      Confidence |-> 8 ],
    [ Category   |-> "SFX_Traditional",
      Keywords   |-> << "traditional", "ceremony", "ceremonial", "temple", "chant", "chanting",
                      "pray", "praying", "royal", "emperor", "ancient" >>,
      Exclusions |-> <<  >>,
      Priority   |-> 7,
      Confidence |-> 8 ],
    [ Category   |-> "SFX_String",
      Keywords   |-> << "pluck", "string", "guitar", "harp", "sitar", "pipa" >>,
      Exclusions |-> <<  >>,
      Priority   |-> 7,
      Confidence |-> 8 ],
    [ Category   |-> "Music",
      Keywords   |-> << "music", "song", "track", "score", "melody", "theme" >>,
      Exclusions |-> <<  >>,
      Priority   |-> 6,
      Confidence |-> 8 ]
  >>

\* CategoryNormalization maps category name formats to standardized names
CategoryNormalization ==
  [ k \in { "PE", "PERCUSSION", "SFX", "VOICE", "CREATURE", "WEAPON", "IMPACT",
        "FOOTSTEP", "VEHICLE", "ALARM", "MECHANICAL", "OBJECT", "AMBIENT", "MUSIC",
        "UI", "DIALOGUE", "DRONE", "LOOP", "RISER", "SLOWMOTION", "SLOW_MOTION",
        "TIMELAPSE", "TIME_LAPSE", "TRANSITION", "WHOOSH", "TRADITIONAL",
        "CEREMONIAL", "STRING", "CITY", "URBAN" } |->
      CASE k = "PE" -> "SFX_Percussion"
        [] k = "PERCUSSION" -> "SFX_Percussion"
        [] k = "SFX" -> "SFX"
        [] k = "VOICE" -> "SFX_Voice"
        [] k = "CREATURE" -> "SFX_Creature"
        [] k = "WEAPON" -> "SFX_Weapon"
        [] k = "IMPACT" -> "SFX_Impact"
        [] k = "FOOTSTEP" -> "SFX_Footstep"
        [] k = "VEHICLE" -> "SFX_Vehicle"
        [] k = "ALARM" -> "SFX_Alarm"
        [] k = "MECHANICAL" -> "SFX_Mechanical"
        [] k = "OBJECT" -> "SFX_Object"
        [] k = "AMBIENT" -> "Ambient"
        [] k = "MUSIC" -> "Music"
        [] k = "UI" -> "UI"
        [] k = "DIALOGUE" -> "Dialogue"
        [] k = "DRONE" -> "SFX_Drone"
        [] k = "LOOP" -> "Music"
        [] k = "RISER" -> "SFX_Riser"
        [] k = "SLOWMOTION" -> "SFX_Time"
        [] k = "SLOW_MOTION" -> "SFX_Time"
        [] k = "TIMELAPSE" -> "SFX_Time"
        [] k = "TIME_LAPSE" -> "SFX_Time"
        [] k = "TRANSITION" -> "SFX_Transition"
        [] k = "WHOOSH" -> "SFX_Whoosh"
        [] k = "TRADITIONAL" -> "SFX_Traditional"
        [] k = "CEREMONIAL" -> "SFX_Traditional"
        [] k = "STRING" -> "SFX_String"
        [] k = "CITY" -> "Ambient"
        [] k = "URBAN" -> "Ambient" ]

\* index of a rule in declaration order
RuleIndex(category) ==
  CHOOSE i \in 1..Len(CategoryRules) :
    /\ CategoryRules[i].Category = category
    /\ \A j \in 1..(i - 1) : CategoryRules[j].Category # category

\* the keywords that make "fire" a weapon sound
WeaponContext(nameLower) ==
  \/ Contains(nameLower, "gun")
  \/ Contains(nameLower, "weapon")
  \/ Contains(nameLower, "shot")
  \/ Contains(nameLower, "gunfire")
  \/ Contains(nameLower, "firearm")

\* a variant that omits the weapon check
AmbientFire_noWeaponCheck(nameLower) ==
  \/ nameLower = "fire"
  \/ HasPrefix(nameLower, "fire ")
  \/ HasSuffix(nameLower, " fire")

\* the Ambient rule's special case
AmbientFire(nameLower) ==
  /\ \/ nameLower = "fire"
     \/ HasPrefix(nameLower, "fire ")
     \/ HasSuffix(nameLower, " fire")
  /\ ~WeaponContext(nameLower)

matchCategoryRule_firstKeywordOnly(nameLower, rule) ==
  /\ \A e \in 1..Len(rule.Exclusions) : ~Contains(nameLower, rule.Exclusions[e])
  /\ \/ Len(rule.Keywords) > 0 /\ Contains(nameLower, rule.Keywords[1])
     \/ rule.Category = "Ambient" /\ AmbientFire(nameLower)

matchCategoryRule(nameLower, rule) ==
  LET excluded == \E e \in 1..Len(rule.Exclusions) :
                    Contains(nameLower, rule.Exclusions[e])
      hits     == { k \in 1..Len(rule.Keywords) : Contains(nameLower, rule.Keywords[k]) }
      first    == CHOOSE k \in hits : \A l \in hits : k <= l
  IN  IF excluded THEN FALSE
      ELSE IF hits # {}
        THEN IF rule.Category = "SFX_Weapon" /\ rule.Keywords[first] = "fire"
               THEN \/ Contains(nameLower, "gunfire")
                    \/ Contains(nameLower, "firearm")
                    \/ Contains(nameLower, "fire_")
                    \/ Contains(nameLower, "_fire")
                    \/ Contains(nameLower, "gun")
                    \/ Contains(nameLower, "weapon")
                    \/ Contains(nameLower, "shot")
               ELSE TRUE
        ELSE rule.Category = "Ambient" /\ AmbientFire(nameLower)

RECURSIVE InferFrom(_, _, _)
InferFrom(nameLower, rules, i) ==
  IF i > Len(rules) THEN "SFX"
  ELSE IF matchCategoryRule(nameLower, rules[i]) THEN rules[i].Category
  ELSE InferFrom(nameLower, rules, i + 1)

\* a variant that checks the rules of highest Priority first
InferCategory_byPriority(filename) ==
  LET nameLower == ToLower(filename)
      matching  == { i \in 1..Len(CategoryRules) :
                       matchCategoryRule(nameLower, CategoryRules[i]) }
      best      == CHOOSE i \in matching : \A j \in matching :
                     \/ CategoryRules[i].Priority > CategoryRules[j].Priority
                     \/ CategoryRules[i].Priority = CategoryRules[j].Priority /\ i <= j
  IN  IF matching = {} THEN "SFX" ELSE CategoryRules[best].Category

InferCategory(filename) ==
  InferFrom(ToLower(filename), CategoryRules, 1)

\* the score a map holds for a category (a missing key reads as zero)
ScoreOf(scores, cat) ==
  IF cat \in DOMAIN scores THEN scores[cat] ELSE 0

\* scores[cat] = w: the weight stored, not added
AddScore_overwrite(scores, cat, w) ==
  [c \in DOMAIN scores \cup {cat} |-> IF c = cat THEN w ELSE scores[c]]

\* scores[cat] += w
AddScore(scores, cat, w) ==
  [c \in DOMAIN scores \cup {cat} |->
     IF c = cat THEN ScoreOf(scores, cat) + w ELSE scores[c]]

RECURSIVE ScoreRulesFrom(_, _, _)
ScoreRulesFrom(nameLower, i, scores) ==
  IF i > Len(CategoryRules) THEN scores
  ELSE ScoreRulesFrom(nameLower, i + 1,
         IF matchCategoryRule(nameLower, CategoryRules[i])
           THEN AddScore(scores, CategoryRules[i].Category, CategoryRules[i].Confidence)
           ELSE scores)

InferCategoryWithConfidenceScores(filename) ==
  ScoreRulesFrom(ToLower(filename), 1, <<>>)

\* NormalizeCategory without the "SFX_" prefixing of unknown categories
NormalizeCategory_noPrefix(cat) ==
  LET catUpper == ToUpper(cat)
  IN  IF catUpper \in DOMAIN CategoryNormalization THEN CategoryNormalization[catUpper]
      ELSE cat

\* NormalizeCategory that leaves only the labels MUSIC and AMBIENT themselves
NormalizeCategory_exactMusic(cat) ==
  LET catUpper == ToUpper(cat)
  IN  IF catUpper \in DOMAIN CategoryNormalization THEN CategoryNormalization[catUpper]
      ELSE IF /\ ~Contains(catUpper, "_")
              /\ catUpper # "MUSIC"
              /\ catUpper # "AMBIENT"
        THEN "SFX_" \o catUpper
      ELSE cat

NormalizeCategory(cat) ==
  LET catUpper == ToUpper(cat)
  IN  IF catUpper \in DOMAIN CategoryNormalization THEN CategoryNormalization[catUpper]
      ELSE IF /\ ~Contains(catUpper, "_")
              /\ ~Contains(catUpper, "MUSIC")
              /\ ~Contains(catUpper, "AMBIENT")
        THEN "SFX_" \o catUpper
      ELSE cat

(***************************************************************************)
(* The audio analyzer.  A pointer is a sequence of length 0 (nil) or 1.     *)
(* Durations are in milliseconds.  Spectral features are scaled integers:  *)
(* ZeroCrossing in hundredths, the band energies in thousandths, Centroid  *)
(* in Hz.                                                                  *)
(***************************************************************************)
Second == 1000

\* filepath.Ext: the suffix beginning at the final dot, "" without a dot
RECURSIVE Ext(_)
Ext(path) ==
  IF path = "" THEN ""
  ELSE IF Head(path) = "." /\ ~Contains(Tail(path), ".") THEN path
  ELSE Ext(Tail(path))

TrimSuffix(s, suffix) ==
  IF HasSuffix(s, suffix) THEN SubSeq(s, 1, Len(s) - Len(suffix)) ELSE s

TrimPrefix(s, prefix) ==
  IF HasPrefix(s, prefix) THEN SubSeq(s, Len(prefix) + 1, Len(s)) ELSE s

\* the digest is modelled as injective on the string it hashes
Sha256Hex16(data) ==
  "sha256:" \o data

\* the fingerprint without the title
generateFingerprint_noTitle(meta) ==
  Sha256Hex16(ToString(meta.SampleRate) \o "|" \o ToString(meta.Channels) \o "|"
              \o ToString(meta.BitDepth) \o "|" \o ToString(meta.Duration \div Second)
              \o "|" \o meta.Format)

generateFingerprint(meta) ==
  Sha256Hex16(ToString(meta.SampleRate) \o "|" \o ToString(meta.Channels) \o "|"
              \o ToString(meta.BitDepth) \o "|" \o ToString(meta.Duration \div Second)
              \o "|" \o meta.Format \o "|" \o meta.Title)

\* &AudioMetadata{}
EmptyMeta ==
  [ Duration |-> 0, SampleRate |-> 0, Channels |-> 0, BitDepth |-> 0, Bitrate |-> 0,
    Format |-> "", Title |-> "", Genre |-> "", HasEmbeddedTags |-> FALSE,
    SpectralFeatures |-> <<>>, Fingerprint |-> "" ]

\* tag.ReadFrom fails on a file without embedded tags
readEmbeddedTags(file, meta) ==
  IF file.tags = <<>> THEN meta
  ELSE [meta EXCEPT !.HasEmbeddedTags = TRUE,
                    !.Title = file.tags[1].Title,
                    !.Genre = file.tags[1].Genre,
                    !.Format = file.tags[1].Format]

\* the duration analyzeWAV settles on; the header gives at least one channel
wavDuration(file) ==
  LET dataSize     == file.size - 44
      totalSamples == dataSize \div (file.wav[1].NumChannels * 2)
  IN  IF file.wav[1].SampleRate <= 0 THEN 0
      ELSE IF file.wav[1].Duration > 0 THEN file.wav[1].Duration
      ELSE IF ~file.canStat \/ dataSize <= 0 \/ totalSamples <= 0 THEN 0
      ELSE (totalSamples * Second) \div file.wav[1].SampleRate

\* analyzeWAV on a valid container
analyzeWAV(file, meta) ==
  LET m1 == [meta EXCEPT !.Format = "WAV",
                         !.SampleRate = file.wav[1].SampleRate,
                         !.Channels = file.wav[1].NumChannels,
                         !.BitDepth = 16,
                         !.Duration = wavDuration(file)]
      m2 == [m1 EXCEPT !.Bitrate =
               IF m1.SampleRate > 0 /\ m1.Channels > 0 /\ m1.BitDepth > 0
                 THEN m1.SampleRate * m1.Channels * m1.BitDepth ELSE 0]
  IN  [m2 EXCEPT !.Fingerprint = generateFingerprint(m2)]

\* analyzeSpectral leaves the features absent without format info or with
\* fewer than 100 samples
analyzeSpectral(file, meta) ==
  IF meta.SampleRate = 0 \/ meta.Channels = 0 \/ file.wav[1].Spectral = <<>>
    THEN meta
    ELSE [meta EXCEPT !.SpectralFeatures = file.wav[1].Spectral]

\* analyzeCompressed with a fingerprint generated as analyzeWAV generates it
analyzeCompressed_fingerprinted(file, meta, ext) ==
  LET m == IF file.tags = <<>> THEN [meta EXCEPT !.Format = SubSeq(ext, 2, Len(ext))]
           ELSE IF file.tags[1].Format # "" THEN [meta EXCEPT !.Format = file.tags[1].Format]
           ELSE meta
  IN  [m EXCEPT !.Fingerprint = generateFingerprint(m)]

\* analyzeCompressed; Bitrate is never set for these formats, so no duration
analyzeCompressed(file, meta, ext) ==
  IF file.tags = <<>> THEN [meta EXCEPT !.Format = SubSeq(ext, 2, Len(ext))]
  ELSE IF file.tags[1].Format # "" THEN [meta EXCEPT !.Format = file.tags[1].Format]
  ELSE meta

\* AnalyzeFile with the failure of file.Stat returned as an error
AnalyzeFile_statIsFatal(filePath, file) ==
  LET meta == readEmbeddedTags(file, EmptyMeta)
      ext  == ToLower(Ext(filePath))
  IN  IF ~file.canOpen THEN [meta |-> <<>>, err |-> "failed to open file"]
      ELSE IF ~file.canSeek THEN [meta |-> <<>>, err |-> "failed to seek file"]
      ELSE IF ext = ".wav"
        THEN IF file.wav = <<>> \/ ~file.canStat
               THEN [meta |-> <<>>, err |-> "failed to analyze WAV"]
               ELSE [meta |-> << analyzeSpectral(file, analyzeWAV(file, meta)) >>,
                     err |-> ""]
      ELSE IF ext \in {".mp3", ".ogg", ".flac", ".aac", ".m4a", ".wma"}
        THEN [meta |-> << analyzeCompressed(file, meta, ext) >>, err |-> ""]
      ELSE [meta |-> << [meta EXCEPT !.Format = SubSeq(ext, 2, Len(ext))] >>, err |-> ""]

\* AnalyzeFile: [meta |-> pointer, err |-> "" for nil]
AnalyzeFile(filePath, file) ==
  LET meta == readEmbeddedTags(file, EmptyMeta)
      ext  == ToLower(Ext(filePath))
  IN  IF ~file.canOpen THEN [meta |-> <<>>, err |-> "failed to open file"]
      ELSE IF ~file.canSeek THEN [meta |-> <<>>, err |-> "failed to seek file"]
      ELSE IF ext = ".wav"
        THEN IF file.wav = <<>>
               THEN [meta |-> <<>>, err |-> "failed to analyze WAV"]
               ELSE [meta |-> << analyzeSpectral(file, analyzeWAV(file, meta)) >>,
                     err |-> ""]
      ELSE IF ext \in {".mp3", ".ogg", ".flac", ".aac", ".m4a", ".wma"}
        THEN [meta |-> << analyzeCompressed(file, meta, ext) >>, err |-> ""]
      ELSE [meta |-> << [meta EXCEPT !.Format = SubSeq(ext, 2, Len(ext))] >>, err |-> ""]

GenerateAudioTags(meta) ==
  LET dur == IF meta.Duration <= 0 THEN <<>>
             ELSE IF meta.Duration < 1 * Second THEN << "short", "<1s" >>
             ELSE IF meta.Duration < 5 * Second THEN << "short", "1-5s" >>
             ELSE IF meta.Duration < 30 * Second THEN << "medium", "5-30s" >>
             ELSE << "long", ">30s" >>
      ch  == IF meta.Channels = 1 THEN << "mono" >>
             ELSE IF meta.Channels = 2 THEN << "stereo" >>
             ELSE IF meta.Channels > 2
               THEN << "multichannel", ToString(meta.Channels) \o "ch" >>
             ELSE <<>>
      sr  == IF meta.SampleRate <= 0 THEN <<>>
             ELSE IF meta.SampleRate >= 48000
               THEN << "hq", ToString(meta.SampleRate \div 1000) \o "kHz" >>
             ELSE << ToString(meta.SampleRate \div 1000) \o "kHz" >>
      bd  == IF meta.BitDepth >= 24 THEN << "hq", ToString(meta.BitDepth) \o "bit" >>
             ELSE <<>>
      br  == IF meta.Bitrate >= 320000 THEN << "hq", "high-bitrate" >> ELSE <<>>
      tg  == IF ~meta.HasEmbeddedTags THEN <<>>
             ELSE IF meta.Genre # "" THEN << "tagged", "genre:" \o ToLower(meta.Genre) >>
             ELSE << "tagged" >>
  IN  dur \o ch \o sr \o bd \o br \o tg

\* the weapon penalty with a floor of zero
WeaponPenalty_floored(scores) ==
  IF ScoreOf(scores, "SFX_Weapon") > 0
    THEN AddScore_overwrite(scores, "SFX_Weapon",
           IF scores["SFX_Weapon"] < 3 THEN 0 ELSE scores["SFX_Weapon"] - 3)
    ELSE scores

\* if scores["SFX_Weapon"] > 0 { scores["SFX_Weapon"] -= 0.3 }
WeaponPenalty(scores) ==
  IF ScoreOf(scores, "SFX_Weapon") > 0
    THEN AddScore(scores, "SFX_Weapon", -3)
    ELSE scores

\* the duration block with the second bucket as an if of its own
DurationScoring_bothShort(scores, meta, filenameLower) ==
  LET s1 == IF meta.Duration > 0 /\ meta.Duration < 2 * Second
              THEN AddScore(scores, "SFX_UI", 6) ELSE scores
  IN  IF meta.Duration > 0 /\ meta.Duration < 5 * Second
        THEN AddScore(s1, "SFX", 4) ELSE s1

\* the duration block of ApplyMetadataScoring; the weights are in tenths
DurationScoring(scores, meta, filenameLower) ==
  IF meta.Duration <= 0 THEN scores
  ELSE IF meta.Duration < 2 * Second THEN AddScore(scores, "SFX_UI", 6)
  ELSE IF meta.Duration < 5 * Second THEN AddScore(scores, "SFX", 4)
  ELSE IF meta.Duration > 30 * Second
    THEN LET a1 == AddScore(scores, "Ambient", 5)
             a2 == IF Contains(filenameLower, "fire") /\ ~WeaponContext(filenameLower)
                     THEN WeaponPenalty(AddScore(a1, "Ambient", 4))
                     ELSE a1
         IN  IF meta.HasEmbeddedTags /\ meta.Genre # ""
                /\ Contains(ToLower(meta.Genre), "music")
               THEN AddScore(a2, "Music", 6)
               ELSE a2
  ELSE scores

\* ApplyMetadataScoring on a non-nil meta
ApplyMetadataScoring(scores, meta, filenameLower) ==
  LET genreLower == ToLower(meta.Genre)
      hasGenre   == meta.HasEmbeddedTags /\ meta.Genre # ""
      d1 == DurationScoring(scores, meta, filenameLower)
      d2 == IF meta.Channels = 1 THEN AddScore(d1, "SFX", 3)
            ELSE IF meta.Channels >= 5 THEN AddScore(d1, "Ambient", 4)
            ELSE d1
      g1 == IF hasGenre /\ (Contains(genreLower, "voice") \/ Contains(genreLower, "dialogue"))
              THEN AddScore(d2, "SFX_Voice", 7) ELSE d2
      g2 == IF hasGenre /\ Contains(genreLower, "music")
              THEN AddScore(g1, "Music", 7) ELSE g1
  IN  IF hasGenre /\ Contains(genreLower, "ambient")
        THEN AddScore(g2, "Ambient", 7) ELSE g2

Min2(a, b) ==
  IF a <= b THEN a ELSE b

Max2(a, b) ==
  IF a >= b THEN a ELSE b

\* the spectral block of InferCategoryWithConfidence
SpectralScoring(scores, sf) ==
  LET s1 == IF sf.ZeroCrossing > 15
              THEN AddScore(AddScore(scores, "SFX_Impact", 3), "SFX_Weapon", 3)
              ELSE scores
      s2 == IF sf.LowEnergy > 100 /\ sf.LowEnergy > sf.MidEnergy
               /\ sf.LowEnergy > sf.HighEnergy
              THEN AddScore(s1, "SFX_Impact", 4) ELSE s1
      s3 == IF sf.HighEnergy > 50 /\ sf.HighEnergy > sf.MidEnergy
              THEN AddScore(AddScore(s2, "SFX_UI", 3), "SFX_Impact", 2) ELSE s2
      lo == Min2(sf.LowEnergy, Min2(sf.MidEnergy, sf.HighEnergy))
      hi == Max2(sf.LowEnergy, Max2(sf.MidEnergy, sf.HighEnergy))
      s4 == IF sf.LowEnergy > 10 /\ sf.MidEnergy > 10 /\ sf.HighEnergy > 10
               /\ 10 * lo > 3 * hi
              THEN AddScore(AddScore(s3, "Ambient", 3), "Music", 2) ELSE s3
  IN  IF sf.Centroid < 500 THEN AddScore(s4, "Ambient", 2)
      ELSE IF sf.Centroid > 2000 THEN AddScore(s4, "SFX_UI", 2)
      ELSE s4

\* the score map InferCategoryWithConfidence selects from (meta is non-nil)
CategoryScores(meta, filename) ==
  LET s1 == ApplyMetadataScoring(InferCategoryWithConfidenceScores(filename), meta,
                                 ToLower(filename))
  IN  IF meta.SpectralFeatures # <<>> THEN SpectralScoring(s1, meta.SpectralFeatures[1])
      ELSE s1

\* the highest score above zero, zero when there is none
BestScore(scores) ==
  LET pos == { scores[c] : c \in { d \in DOMAIN scores : scores[d] > 0 } }
  IN  IF pos = {} THEN 0 ELSE CHOOSE s \in pos : \A t \in pos : s >= t

\* a category with a score above zero, whether or not it is the highest
BestCategories_anyPositive(scores) ==
  IF BestScore(scores) = 0 THEN { "SFX" }
  ELSE { c \in DOMAIN scores : scores[c] > 0 }

\* the categories the selection loop can return: the map is iterated in an
\* unspecified order and only a strictly higher score replaces the best
BestCategories(scores) ==
  IF BestScore(scores) = 0 THEN { "SFX" }
  ELSE { c \in DOMAIN scores : scores[c] = BestScore(scores) }

\* the confidence without its floor of 0.3
Confidence_noFloor(bestScore) ==
  Min2(2 * bestScore, 30)

\* math.Min(bestScore/1.5, 1.0), floored at 0.3; bestScore in tenths, the
\* confidence in thirtieths
Confidence(bestScore) ==
  Max2(9, Min2(2 * bestScore, 30))

\* the loop body with bestScore never updated
SelectStep_keepScore(best, cat, score) ==
  IF score > best.bestScore
    THEN [ bestCategory |-> cat, bestScore |-> best.bestScore ]
    ELSE best

\* if score > bestScore { bestScore = score; bestCategory = cat }
SelectStep(best, cat, score) ==
  IF score > best.bestScore
    THEN [ bestCategory |-> cat, bestScore |-> score ]
    ELSE best

\* the CategoryResult values the selection and the normalization can give
SelectFrom(scores) ==
  { [ panic |-> FALSE, Category |-> c, Confidence |-> Confidence(BestScore(scores)) ] :
      c \in BestCategories(scores) }

\* InferCategoryWithConfidence on a meta pointer: ApplyMetadataScoring
\* returns at once on nil, and reading meta.SpectralFeatures through nil
\* panics
InferCategoryWithConfidenceOn(meta, filename) ==
  IF meta = <<>>
    THEN { [ panic |-> TRUE, Category |-> "", Confidence |-> 0 ] }
    ELSE SelectFrom(CategoryScores(meta[1], filename))

(***************************************************************************)
(* Filename parsing (processor.go).                                        *)
(***************************************************************************)
\* strings.Index and strings.LastIndex for a one-character separator, 1-based,
\* 0 when the separator does not occur
Index(s, sep) ==
  IF Contains(s, sep)
    THEN CHOOSE i \in 1..Len(s) :
           SubSeq(s, i, i) = sep /\ \A j \in 1..(i - 1) : SubSeq(s, j, j) # sep
    ELSE 0

LastIndex(s, sep) ==
  IF Contains(s, sep)
    THEN CHOOSE i \in 1..Len(s) :
           SubSeq(s, i, i) = sep /\ \A j \in (i + 1)..Len(s) : SubSeq(s, j, j) # sep
    ELSE 0

\* strings.ReplaceAll for a one-character pattern
RECURSIVE ReplaceAll(_, _, _)
ReplaceAll(s, old, new) ==
  IF s = "" THEN ""
  ELSE (IF Head(s) = old THEN new ELSE Head(s)) \o ReplaceAll(Tail(s), old, new)

\* strings.Fields: the maximal runs of non-space characters
RECURSIVE FieldsFrom(_, _)
FieldsFrom(s, word) ==
  IF s = "" THEN (IF word = "" THEN <<>> ELSE << word >>)
  ELSE IF Head(s) = " "
    THEN (IF word = "" THEN <<>> ELSE << word >>) \o FieldsFrom(Tail(s), "")
  ELSE FieldsFrom(Tail(s), word \o Head(s))

Fields(s) ==
  FieldsFrom(s, "")

IsDigits(s) ==
  /\ s # ""
  /\ \A i \in 1..Len(s) :
       SubSeq(s, i, i) \in {"0", "1", "2", "3", "4", "5", "6", "7", "8", "9"}

\* the sequence without the elements that fail the test
RECURSIVE LongWords(_)
LongWords(words) ==
  IF words = <<>> THEN <<>>
  ELSE (IF Len(Head(words)) > 2 THEN << Head(words) >> ELSE <<>>)
       \o LongWords(Tail(words))

generateTags(af) ==
  LET nameLower == ToLower(af.OriginalName)
  IN  (IF af.Category # "" THEN << af.Category >> ELSE <<>>)
      \o (IF af.SubCategory # ""
            THEN LongWords(Fields(ReplaceAll(ToLower(af.SubCategory), "_", " ")))
            ELSE <<>>)
      \o (IF af.Source # "" THEN << "src:" \o af.Source >> ELSE <<>>)
      \o (IF Contains(nameLower, "lfe") THEN << "lfe", "low-frequency" >> ELSE <<>>)
      \o (IF Contains(nameLower, "processed") THEN << "processed", "fx" >> ELSE <<>>)
      \o (IF Contains(nameLower, "attacked") \/ Contains(nameLower, "pain")
            THEN << "combat", "damage" >> ELSE <<>>)

\* what parseFile reads off the name: the ID, the source code, the category
\* (normalized) and the subcategory
parseName(originalName) ==
  LET name0  == TrimSuffix(originalName, Ext(originalName))
      idExt  == Ext(name0)
      hasId  == Len(idExt) > 1 /\ IsDigits(SubSeq(idExt, 2, Len(idExt)))
      id     == IF hasId THEN SubSeq(idExt, 2, Len(idExt)) ELSE ""
      name1  == IF hasId THEN TrimSuffix(name0, "." \o id) ELSE name0
      us     == LastIndex(name1, "_")
      name2  == IF us > 0 THEN SubSeq(name1, 1, us - 1) ELSE name1
      dash   == Index(name2, "-")
      cat    == IF dash > 0 THEN SubSeq(name2, 1, dash - 1) ELSE InferCategory(name2)
  IN  [ hasId |-> hasId, id |-> id,
        hasSource |-> us > 0,
        source |-> IF us > 0 THEN SubSeq(name1, us + 1, Len(name1)) ELSE "",
        category |-> NormalizeCategory(cat),
        subCategory |-> IF dash > 0 THEN SubSeq(name2, dash + 1, Len(name2)) ELSE name2 ]

(***************************************************************************)
(* Name generation (processor.go).                                         *)
(***************************************************************************)
IsLetter(c) ==
  LowerChar(c) # c \/ UpperChar(c) # c

IsLower(c) ==
  UpperChar(c) # c

IsUpper(c) ==
  LowerChar(c) # c

\* regexp [^a-zA-Z0-9_] replaced by "": what remains of the string
RECURSIVE KeepWordChars(_)
KeepWordChars(s) ==
  IF s = "" THEN ""
  ELSE (IF IsLetter(Head(s)) \/ IsDigits(Head(s)) \/ Head(s) = "_" THEN Head(s) ELSE "")
       \o KeepWordChars(Tail(s))

\* regexp [^a-zA-Z0-9\s\-_] replaced by ""
RECURSIVE KeepNameChars(_)
KeepNameChars(s) ==
  IF s = "" THEN ""
  ELSE (IF IsLetter(Head(s)) \/ IsDigits(Head(s)) \/ Head(s) \in { "_", "-", " " }
          THEN Head(s) ELSE "")
       \o KeepNameChars(Tail(s))

\* regexp ([a-z])([A-Z]) replaced by "$1 $2"
RECURSIVE SplitCamel(_)
SplitCamel(s) ==
  IF Len(s) < 2 THEN s
  ELSE IF IsLower(Head(s)) /\ IsUpper(Head(Tail(s)))
    THEN Head(s) \o " " \o SplitCamel(Tail(s))
  ELSE Head(s) \o SplitCamel(Tail(s))

\* strings.ToUpper(word[:1]) + strings.ToLower(word[1:])
Capitalize(word) ==
  IF word = "" THEN "" ELSE UpperChar(Head(word)) \o ToLower(Tail(word))

\* strings.Join
RECURSIVE Join(_, _)
Join(words, sep) ==
  IF words = <<>> THEN ""
  ELSE IF Len(words) = 1 THEN Head(words)
  ELSE Head(words) \o sep \o Join(Tail(words), sep)

\* the words between the underscores once runs of underscores are collapsed
\* and the outer ones trimmed
UnderscoreWords(s) ==
  Fields(ReplaceAll(s, "_", " "))

cleanName(s) ==
  LET words == UnderscoreWords(KeepWordChars(ReplaceAll(s, "-", "_")))
  IN  Join([i \in DOMAIN words |-> Capitalize(words[i])], "_")

\* as cleanName, a space becomes an underscore and a word that begins with a
\* digit is kept as it is
cleanNamePart(s) ==
  LET words == UnderscoreWords(KeepWordChars(ReplaceAll(ReplaceAll(s, "-", "_"), " ", "_")))
  IN  Join([i \in DOMAIN words |->
              IF IsDigits(Head(words[i])) THEN words[i] ELSE Capitalize(words[i])], "_")

cleanNameWithCase(s) ==
  LET words == Fields(SplitCamel(ReplaceAll(ReplaceAll(KeepNameChars(s), "-", " "), "_", " ")))
  IN  Join([i \in DOMAIN words |-> Capitalize(words[i])], "")

generateUE5Name(packName, af) ==
  LET category == TrimPrefix(af.Category, "SFX_")
      parts == << "A" >>
               \o (IF packName # "" /\ cleanNameWithCase(packName) # ""
                     THEN << cleanNameWithCase(packName) >> ELSE <<>>)
               \o (IF category # "" THEN << cleanNamePart(category) >> ELSE <<>>)
               \o (IF af.SubCategory # "" /\ cleanNamePart(af.SubCategory) # ""
                     THEN << cleanNamePart(af.SubCategory) >> ELSE <<>>)
      newName == Join(parts, "_")
  IN  (IF HasPrefix(newName, "A_") THEN newName ELSE "A_" \o TrimPrefix(newName, "A"))
      \o Ext(af.OriginalName)

\* fmt.Sprintf("%02d", count)
Pad2(count) ==
  IF count < 10 THEN "0" \o ToString(count) ELSE ToString(count)

\* nameCounts[baseName], the zero value for a missing key
CountOf(nameCounts, baseName) ==
  IF baseName \in DOMAIN nameCounts THEN nameCounts[baseName] ELSE 0

\* the second pass of generateNewNames from record i on
RECURSIVE NumberFrom(_, _, _)
NumberFrom(files, i, nameCounts) ==
  IF i > Len(files) THEN files
  ELSE LET ext == Ext(files[i].NewName)
           baseName == TrimSuffix(files[i].NewName, ext)
           count == CountOf(nameCounts, baseName)
       IN  NumberFrom(
             IF count > 0
               THEN [files EXCEPT ![i].NewName = baseName \o "_" \o Pad2(count) \o ext]
               ELSE files,
             i + 1,
             [k \in DOMAIN nameCounts \cup { baseName } |->
                IF k = baseName THEN count + 1 ELSE nameCounts[k]])

\* generateNewNames: the base names, then the numbering
generateNewNames(packName, files) ==
  NumberFrom([i \in DOMAIN files |->
                [files[i] EXCEPT !.NewName = generateUE5Name(packName, files[i])]],
             1, << >>)

(***************************************************************************)
(* The files a scan can find: a name and what is on disk under it.         *)
(***************************************************************************)
NoSpectral ==
  <<>>

\* a one-second mono WAV, no embedded tags, too short for the spectral pass
WavShot ==
  [ canOpen |-> TRUE, canSeek |-> TRUE, canStat |-> TRUE, tags |-> <<>>, size |-> 88244,
    wav |-> << [ SampleRate |-> 44100, NumChannels |-> 1, Duration |-> 1000,
                 Spectral |-> NoSpectral ] >> ]

\* the same format; the decoder gives no duration, the size gives 1.5 seconds
WavFire ==
  [ canOpen |-> TRUE, canSeek |-> TRUE, canStat |-> TRUE, tags |-> <<>>, size |-> 132344,
    wav |-> << [ SampleRate |-> 44100, NumChannels |-> 1, Duration |-> 0,
                 Spectral |-> << [ ZeroCrossing |-> 20, LowEnergy |-> 150, MidEnergy |-> 50,
                                   HighEnergy |-> 20, Centroid |-> 300 ] >> ] >> ]

\* the one-second WAV again, in a place the process may not read
WavUnreadable ==
  [ canOpen |-> FALSE, canSeek |-> TRUE, canStat |-> TRUE, tags |-> <<>>, size |-> 88244,
    wav |-> << [ SampleRate |-> 44100, NumChannels |-> 1, Duration |-> 1000,
                 Spectral |-> NoSpectral ] >> ]

\* a FIFO with a .wav name: it opens, and a seek on it fails
WavPipe ==
  [ canOpen |-> TRUE, canSeek |-> FALSE, canStat |-> TRUE, tags |-> <<>>, size |-> 0,
    wav |-> <<>> ]

\* a compressed file without embedded tags
Mp3Bare ==
  [ canOpen |-> TRUE, canSeek |-> TRUE, canStat |-> TRUE, tags |-> <<>>, size |-> 4000,
    wav |-> <<>> ]

\* a .wav file whose container signature is invalid
WavCorrupt ==
  [ canOpen |-> TRUE, canSeek |-> TRUE, canStat |-> TRUE, tags |-> <<>>, size |-> 10,
    wav |-> <<>> ]

\* a forty-second stereo WAV with embedded tags
WavWind ==
  [ canOpen |-> TRUE, canSeek |-> TRUE, canStat |-> TRUE, size |-> 7680044,
    tags |-> << [ Title |-> "Wind", Genre |-> "Ambient", Format |-> "WAV" ] >>,
    wav |-> << [ SampleRate |-> 48000, NumChannels |-> 2, Duration |-> 40000,
                 Spectral |-> << [ ZeroCrossing |-> 5, LowEnergy |-> 40, MidEnergy |-> 30,
                                   HighEnergy |-> 20, Centroid |-> 900 ] >> ] >> ]

FileKinds ==
  { [ name |-> "gun_shot_BW.123.wav", file |-> WavShot ],
    [ name |-> "gun_shot_BW.123.wav", file |-> WavUnreadable ],
    [ name |-> "fire.wav", file |-> WavFire ],
    [ name |-> "fire.wav", file |-> WavPipe ],
    [ name |-> "-Impact_LFE.mp3", file |-> Mp3Bare ],
    [ name |-> "PE-Horror_BW.28968.wav", file |-> WavCorrupt ],
    [ name |-> "wind_ambient.wav", file |-> WavWind ] }

\* AudioFile{OriginalPath: path, OriginalName: filepath.Base(path)}
NewAudioFile(originalName) ==
  [ OriginalName |-> originalName, Category |-> "", SubCategory |-> "", Source |-> "",
    ID |-> "", NewName |-> "", Tags |-> <<>>, AudioMeta |-> <<>> ]

\* the value a table of pairs holds for a key
Lookup(table, key) ==
  (CHOOSE p \in table : p[1] = key)[2]

\* the pure functions of the pipeline, tabulated on the files at hand
AnalysisTable ==
  { << k, AnalyzeFile(k.name, k.file) >> : k \in FileKinds }

CategoryTable ==
  { << k, BestCategories(CategoryScores(AnalyzeFile(k.name, k.file).meta[1], k.name)) >> :
      k \in { f \in FileKinds : AnalyzeFile(f.name, f.file).err = "" } }

\* the fields parseFile reads off the name, set on the record
WithParsed(af, p) ==
  [af EXCEPT !.ID = IF p.hasId THEN p.id ELSE @,
             !.Source = IF p.hasSource THEN p.source ELSE @,
             !.Category = p.category,
             !.SubCategory = p.subCategory]

\* af.Tags = ap.generateTags(af)
WithGeneratedTags(af) ==
  [af EXCEPT !.Tags = generateTags(af)]

\* parseFile on the record the scan creates for a name
ParseFileTable ==
  { << k.name, WithGeneratedTags(WithParsed(NewAudioFile(k.name), parseName(k.name))) >> :
      k \in FileKinds }

\* what parseFile sets on a record: everything but NewName and AudioMeta
WithParsedFile(af, parsed) ==
  [parsed EXCEPT !.NewName = af.NewName, !.AudioMeta = af.AudioMeta]

\* parseFile with the category of the analysis kept where there is one
parseFile_keepCategory(af) ==
  LET parsed == WithGeneratedTags(WithParsed(af, parseName(af.OriginalName)))
  IN  IF af.Category # "" THEN [parsed EXCEPT !.Category = af.Category] ELSE parsed

\* parseFile reads of the record only its OriginalName, and keeps the ID and
\* the Source the record has when the name gives none: the scan's, ""
parseFile(af) ==
  IF af.ID = "" /\ af.Source = "" /\ af.OriginalName \in { k.name : k \in FileKinds }
    THEN WithParsedFile(af, Lookup(ParseFileTable, af.OriginalName))
    ELSE WithGeneratedTags(WithParsed(af, parseName(af.OriginalName)))

\* AnalyzeFile on a scanned file
Analysis(filePath, file) ==
  IF [name |-> filePath, file |-> file] \in FileKinds
    THEN Lookup(AnalysisTable, [name |-> filePath, file |-> file])
    ELSE AnalyzeFile(filePath, file)

\* the categories InferCategoryWithConfidence can return for a scanned file
\* whose analysis succeeded
InferCategoryWithConfidence(filename, file) ==
  IF [name |-> filename, file |-> file] \in FileKinds
    THEN Lookup(CategoryTable, [name |-> filename, file |-> file])
    ELSE BestCategories(CategoryScores(AnalyzeFile(filename, file).meta[1], filename))

\* numWorkers := 8
DefaultWorkers == 8

\* one worker for every file, the pool not capped
NumWorkers_perFile(total) ==
  total

NumWorkers(total) ==
  IF total < DefaultWorkers THEN total ELSE DefaultWorkers

(***************************************************************************)
(* The configuration and the disk.  File i of the walk lies in its own     *)
(* subdirectory of SourceDir, so that two files can have one name; the     *)
(* disk maps a path to what is stored under it.                            *)
(***************************************************************************)
\* the flags as main leaves them by default, the output directory being the
\* source directory, and a run into another directory without folders and
\* manifest; each with and without -dry-run
Configs ==
  { [ SourceDir |-> "in", OutputDir |-> IF o THEN "in" ELSE "out", PackName |-> "HorrorPack",
      DryRun |-> d, Organize |-> o, CreateManifest |-> o ] : d \in BOOLEAN, o \in BOOLEAN }

\* Config{}
NoConfig ==
  [ SourceDir |-> "", OutputDir |-> "", PackName |-> "", DryRun |-> FALSE,
    Organize |-> FALSE, CreateManifest |-> FALSE ]

\* filepath.Dir of the path of file i relative to SourceDir
SubDir(i) ==
  "d" \o ToString(i)

\* af.OriginalPath of record i
OriginalPath(cfg, files, i) ==
  cfg.SourceDir \o "/" \o SubDir(i) \o "/" \o files[i].OriginalName

\* the disk before Process runs
DiskOf(cfg, d) ==
  [p \in { OriginalPath(cfg, [j \in DOMAIN d |-> [OriginalName |-> d[j].name]], i) :
             i \in DOMAIN d } |->
     "file " \o ToString(CHOOSE i \in DOMAIN d :
                  p = OriginalPath(cfg, [j \in DOMAIN d |-> [OriginalName |-> d[j].name]], i))]

(***************************************************************************)
(* Process: scanFiles.                                                     *)
(***************************************************************************)
InitPipeline ==
  /\ pc = "scan"
  /\ dir \in UNION { [1..n -> FileKinds] : n \in 0..MaxFiles }
  /\ audioFiles = <<>>
  /\ fingerprints = <<>>
  /\ jobs = <<>>
  /\ jobsClosed = FALSE
  /\ sent = 0
  /\ workers = <<>>
  /\ results = <<>>
  /\ resultsClosed = FALSE
  /\ processed = 0
  /\ ret = ""
  /\ config \in Configs
  /\ disk = DiskOf(config, dir)

IdleCall ==
  call = [ fn |-> "idle" ]

IdleRules ==
  /\ name = ""
  /\ inferred = ""
  /\ rpc = "idle"
  /\ IdleCall

IdlePool ==
  pool = [ state |-> "idle" ]

Init ==
  InitPipeline /\ IdleRules /\ IdlePool

\* scanFiles appends one record for every audio file the walk visits
ScanFiles ==
  /\ pc = "scan"
  /\ audioFiles' = [i \in 1..Len(dir) |-> NewAudioFile(dir[i].name)]
  /\ pc' = "analyze"
  /\ UNCHANGED << dir, fingerprints, jobs, jobsClosed, sent, workers, results,
                  resultsClosed, processed, ret >>
  /\ UNCHANGED << ruleVars, pool, config, disk >>

\* the walk fails at some entry, the files before it appended: Process
\* returns the error
ScanFails ==
  /\ pc = "scan"
  /\ \E n \in 0..Len(dir) :
       audioFiles' = [i \in 1..n |-> NewAudioFile(dir[i].name)]
  /\ pc' = "done"
  /\ ret' = "failed to scan files"
  /\ UNCHANGED << dir, fingerprints, jobs, jobsClosed, sent, workers, results,
                  resultsClosed, processed >>
  /\ UNCHANGED << ruleVars, pool, config, disk >>

(***************************************************************************)
(* analyzeAudioFiles.  Record indices are 1-based.                         *)
(***************************************************************************)
\* no file: analyzeAudioFiles returns nil at once
AnalyzeNothing ==
  /\ pc = "analyze"
  /\ Len(audioFiles) = 0
  /\ pc' = "parse"
  /\ UNCHANGED << dir, audioFiles, fingerprints, jobs, jobsClosed, sent, workers, results,
                  resultsClosed, processed, ret >>
  /\ UNCHANGED << ruleVars, pool, config, disk >>

\* the channels are made and the worker, sender and closer goroutines started
StartWorkers ==
  /\ pc = "analyze"
  /\ Len(audioFiles) > 0
  /\ workers' = [w \in 1..NumWorkers(Len(audioFiles)) |-> [pc |-> "recv", job |-> 0, open |-> {}]]
  /\ pc' = "collect"
  /\ UNCHANGED << dir, audioFiles, fingerprints, jobs, jobsClosed, sent, results,
                  resultsClosed, processed, ret >>
  /\ UNCHANGED << ruleVars, pool, config, disk >>

\* the sender goroutine: jobs <- job{index: i, file: &ap.audioFiles[i]}
SendJob ==
  /\ pc = "collect"
  /\ sent < Len(audioFiles)
  /\ Len(jobs) < Len(audioFiles)
  /\ jobs' = Append(jobs, sent + 1)
  /\ sent' = sent + 1
  /\ UNCHANGED << pc, dir, audioFiles, fingerprints, jobsClosed, workers, results,
                  resultsClosed, processed, ret >>
  /\ UNCHANGED << ruleVars, pool, config, disk >>

\* the sender goroutine: close(jobs)
CloseJobs ==
  /\ pc = "collect"
  /\ sent = Len(audioFiles)
  /\ ~jobsClosed
  /\ jobsClosed' = TRUE
  /\ UNCHANGED << pc, dir, audioFiles, fingerprints, jobs, sent, workers, results,
                  resultsClosed, processed, ret >>
  /\ UNCHANGED << ruleVars, pool, config, disk >>

\* os.Open(filePath): the handles the call of AnalyzeFile for job j opens
Open(j) ==
  IF dir[j].file.canOpen THEN { j } ELSE {}

\* a worker receives a job and calls AnalyzeFile, which opens the file
RecvJob(w) ==
  /\ workers[w].pc = "recv"
  /\ jobs # <<>>
  /\ workers' = [workers EXCEPT ![w] = [pc |-> "extract", job |-> Head(jobs),
                                        open |-> Open(Head(jobs))]]
  /\ jobs' = Tail(jobs)
  /\ UNCHANGED << pc, dir, audioFiles, fingerprints, jobsClosed, sent, results,
                  resultsClosed, processed, ret >>
  /\ UNCHANGED << ruleVars, pool, config, disk >>

\* the result a worker emits for job j when the selection loop picks cat
WorkerResult(j, cat) ==
  LET a == Analysis(audioFiles[j].OriginalName, dir[j].file)
  IN  IF a.err # ""
        THEN [index |-> j, meta |-> <<>>, tags |-> <<>>, cat |-> "", err |-> a.err]
        ELSE [index |-> j, meta |-> a.meta, tags |-> GenerateAudioTags(a.meta[1]),
              cat |-> cat, err |-> ""]

\* the categories InferCategoryWithConfidence can return for job j
WorkerCategories(j) ==
  IF Analysis(audioFiles[j].OriginalName, dir[j].file).err # "" THEN { "" }
  ELSE InferCategoryWithConfidence(audioFiles[j].OriginalName, dir[j].file)

\* file.Close() as the last statement of AnalyzeFile instead of deferred:
\* the handles left open when AnalyzeFile returns with the given result
AfterReturn_closeAtEnd(open, a) ==
  IF a.err = "" THEN {} ELSE open

\* defer file.Close() right after the successful os.Open: no handle is left
\* whatever AnalyzeFile returns
AfterReturn(open, a) ==
  {}

\* the worker storing the metadata in the record itself before it sends
EmitResult_writesRecord(w) ==
  /\ workers[w].pc = "extract"
  /\ Len(results) < Len(audioFiles)
  /\ \E cat \in WorkerCategories(workers[w].job) :
       /\ results' = Append(results, WorkerResult(workers[w].job, cat))
       /\ audioFiles' = [audioFiles EXCEPT ![workers[w].job].AudioMeta =
                                             WorkerResult(workers[w].job, cat).meta]
  /\ workers' = [workers EXCEPT ![w] =
                   [pc |-> "recv", job |-> 0,
                    open |-> AfterReturn(workers[w].open,
                                         Analysis(audioFiles[workers[w].job].OriginalName,
                                                  dir[workers[w].job].file))]]
  /\ UNCHANGED << pc, dir, fingerprints, jobs, jobsClosed, sent,
                  resultsClosed, processed, ret >>
  /\ UNCHANGED << ruleVars, pool, config, disk >>

\* AnalyzeFile returns and the worker sends its result
EmitResult(w) ==
  /\ workers[w].pc = "extract"
  /\ Len(results) < Len(audioFiles)
  /\ \E cat \in WorkerCategories(workers[w].job) :
       results' = Append(results, WorkerResult(workers[w].job, cat))
  /\ workers' = [workers EXCEPT ![w] =
                   [pc |-> "recv", job |-> 0,
                    open |-> AfterReturn(workers[w].open,
                                         Analysis(audioFiles[workers[w].job].OriginalName,
                                                  dir[workers[w].job].file))]]
  /\ UNCHANGED << pc, dir, audioFiles, fingerprints, jobs, jobsClosed, sent,
                  resultsClosed, processed, ret >>
  /\ UNCHANGED << ruleVars, pool, config, disk >>

\* range over a closed and drained jobs channel ends: wg.Done()
WorkerExit(w) ==
  /\ workers[w].pc = "recv"
  /\ jobs = <<>>
  /\ jobsClosed
  /\ workers' = [workers EXCEPT ![w] = [pc |-> "exited", job |-> 0, open |-> workers[w].open]]
  /\ UNCHANGED << pc, dir, audioFiles, fingerprints, jobs, jobsClosed, sent, results,
                  resultsClosed, processed, ret >>
  /\ UNCHANGED << ruleVars, pool, config, disk >>

\* the closer not waiting for the workers: close(results) once jobs is closed
CloseResults_noWait ==
  /\ pc = "collect"
  /\ jobsClosed
  /\ ~resultsClosed
  /\ resultsClosed' = TRUE
  /\ UNCHANGED << pc, dir, audioFiles, fingerprints, jobs, jobsClosed, sent, workers,
                  results, processed, ret >>
  /\ UNCHANGED << ruleVars, pool, config, disk >>

\* the closer goroutine: wg.Wait(); close(results)
CloseResults ==
  /\ pc = "collect"
  /\ \A w \in DOMAIN workers : workers[w].pc = "exited"
  /\ ~resultsClosed
  /\ resultsClosed' = TRUE
  /\ UNCHANGED << pc, dir, audioFiles, fingerprints, jobs, jobsClosed, sent, workers,
                  results, processed, ret >>
  /\ UNCHANGED << ruleVars, pool, config, disk >>

\* the index appended under every fingerprint the map holds as well
TrackFingerprint_underEveryKey(fps, fp, index) ==
  [k \in DOMAIN fps \cup {fp} |->
     Append(IF k \in DOMAIN fps THEN fps[k] ELSE <<>>, index)]

\* ap.fingerprints[fp] = append(ap.fingerprints[fp], index)
TrackFingerprint(fps, fp, index) ==
  [k \in DOMAIN fps \cup {fp} |->
     IF k = fp THEN Append(IF fp \in DOMAIN fps THEN fps[fp] ELSE <<>>, index)
     ELSE fps[k]]

\* the body of the collector's loop for one successful result
ApplyResult(af, result) ==
  [af EXCEPT !.AudioMeta = result.meta,
             !.Category = IF result.cat # "" /\ (af.Category = "" \/ af.Category = "SFX")
                            THEN result.cat ELSE af.Category,
             !.Tags = af.Tags \o result.tags]

\* the collector returning at the first failed result instead of going on
Collect_returnOnError ==
  /\ pc = "collect"
  /\ results # <<>>
  /\ LET result == Head(results)
     IN  IF result.err # ""
           THEN /\ pc' = "parse"
                /\ UNCHANGED << audioFiles, fingerprints >>
           ELSE /\ audioFiles' = [audioFiles EXCEPT ![result.index] =
                                    ApplyResult(audioFiles[result.index], result)]
                /\ fingerprints' =
                     IF result.meta # <<>> /\ result.meta[1].Fingerprint # ""
                       THEN TrackFingerprint(fingerprints, result.meta[1].Fingerprint,
                                             result.index)
                       ELSE fingerprints
                /\ pc' = pc
  /\ results' = Tail(results)
  /\ processed' = processed + 1
  /\ UNCHANGED << dir, jobs, jobsClosed, sent, workers, resultsClosed, ret >>
  /\ UNCHANGED << ruleVars, pool, config, disk >>

\* the collector applying a result to the record of its arrival position
Collect_byArrival ==
  /\ pc = "collect"
  /\ results # <<>>
  /\ LET result == Head(results)
     IN  IF result.err # ""
           THEN UNCHANGED << audioFiles, fingerprints >>
           ELSE /\ audioFiles' = [audioFiles EXCEPT ![processed + 1] =
                                    ApplyResult(audioFiles[processed + 1], result)]
                /\ fingerprints' =
                     IF result.meta # <<>> /\ result.meta[1].Fingerprint # ""
                       THEN TrackFingerprint(fingerprints, result.meta[1].Fingerprint,
                                             processed + 1)
                       ELSE fingerprints
  /\ results' = Tail(results)
  /\ processed' = processed + 1
  /\ UNCHANGED << pc, dir, jobs, jobsClosed, sent, workers, resultsClosed, ret >>
  /\ UNCHANGED << ruleVars, pool, config, disk >>

\* the collector takes one result off the channel
Collect ==
  /\ pc = "collect"
  /\ results # <<>>
  /\ LET result == Head(results)
     IN  IF result.err # ""
           THEN UNCHANGED << audioFiles, fingerprints >>
           ELSE /\ audioFiles' = [audioFiles EXCEPT ![result.index] =
                                    ApplyResult(audioFiles[result.index], result)]
                /\ fingerprints' =
                     IF result.meta # <<>> /\ result.meta[1].Fingerprint # ""
                       THEN TrackFingerprint(fingerprints, result.meta[1].Fingerprint,
                                             result.index)
                       ELSE fingerprints
  /\ results' = Tail(results)
  /\ processed' = processed + 1
  /\ UNCHANGED << pc, dir, jobs, jobsClosed, sent, workers, resultsClosed, ret >>
  /\ UNCHANGED << ruleVars, pool, config, disk >>

\* the orders in which a range over a map can visit its keys
Orders(keys) ==
  { o \in [1..Cardinality(keys) -> keys] : \A k \in keys : \E i \in DOMAIN o : o[i] = k }

\* the group counter advanced for every index instead of every group
RECURSIVE TagGroup_countPerIndex(_, _, _, _)
TagGroup_countPerIndex(files, indices, i, duplicateCount) ==
  IF i > Len(indices) THEN files
  ELSE TagGroup_countPerIndex(
         [files EXCEPT ![indices[i]].Tags =
            @ \o << "duplicate", "duplicate-group-" \o ToString(duplicateCount) >>],
         indices, i + 1, duplicateCount + 1)

\* the inner loop of detectDuplicates: both tags for every index of one group
RECURSIVE TagGroup(_, _, _, _)
TagGroup(files, indices, i, duplicateCount) ==
  IF i > Len(indices) THEN files
  ELSE TagGroup([files EXCEPT ![indices[i]].Tags =
                   @ \o << "duplicate", "duplicate-group-" \o ToString(duplicateCount) >>],
                indices, i + 1, duplicateCount)

RECURSIVE DetectFrom(_, _, _, _, _)
DetectFrom(files, fps, order, k, duplicateCount) ==
  IF k > Len(order) THEN files
  ELSE IF Len(fps[order[k]]) > 1
    THEN DetectFrom(TagGroup(files, fps[order[k]], 1, duplicateCount + 1), fps, order,
                    k + 1, duplicateCount + 1)
  ELSE DetectFrom(files, fps, order, k + 1, duplicateCount)

\* detectDuplicates when the map is visited in the given order
detectDuplicates(files, fps, order) ==
  DetectFrom(files, fps, order, 1, 0)

\* the results channel is closed and drained: detectDuplicates, return nil
FinishAnalyze ==
  /\ pc = "collect"
  /\ results = <<>>
  /\ resultsClosed
  /\ \E order \in Orders(DOMAIN fingerprints) :
       audioFiles' = detectDuplicates(audioFiles, fingerprints, order)
  /\ pc' = "parse"
  /\ UNCHANGED << dir, fingerprints, jobs, jobsClosed, sent, workers, results,
                  resultsClosed, processed, ret >>
  /\ UNCHANGED << ruleVars, pool, config, disk >>

(***************************************************************************)
(* Process after the analysis.                                             *)
(***************************************************************************)
\* parseFiles
ParseFiles ==
  /\ pc = "parse"
  /\ audioFiles' = [i \in 1..Len(audioFiles) |-> parseFile(audioFiles[i])]
  /\ pc' = "names"
  /\ UNCHANGED << dir, fingerprints, jobs, jobsClosed, sent, workers, results,
                  resultsClosed, processed, ret >>
  /\ UNCHANGED << ruleVars, pool, config, disk >>

\* generateNewNames
GenerateNewNames ==
  /\ pc = "names"
  /\ audioFiles' = generateNewNames(config.PackName, audioFiles)
  /\ pc' = "preview"
  /\ UNCHANGED << dir, fingerprints, jobs, jobsClosed, sent, workers, results,
                  resultsClosed, processed, ret >>
  /\ UNCHANGED << ruleVars, pool, config, disk >>

\* displayPreview prints the records grouped by category and changes nothing
DisplayPreview ==
  /\ pc = "preview"
  /\ pc' = "dryrun"
  /\ UNCHANGED << dir, audioFiles, fingerprints, jobs, jobsClosed, sent, workers, results,
                  resultsClosed, processed, ret >>
  /\ UNCHANGED << ruleVars, pool, config, disk >>

\* if ap.config.DryRun { return nil }
DryRunReturn ==
  /\ pc = "dryrun"
  /\ config.DryRun
  /\ pc' = "done"
  /\ ret' = ""
  /\ UNCHANGED << dir, audioFiles, fingerprints, jobs, jobsClosed, sent, workers, results,
                  resultsClosed, processed >>
  /\ UNCHANGED << ruleVars, pool, config, disk >>

\* where applyChanges puts record i
OutputPath(cfg, files, i) ==
  IF cfg.Organize
    THEN cfg.OutputDir \o "/"
         \o (IF cleanName(files[i].Category) = "" THEN "Uncategorized"
             ELSE cleanName(files[i].Category))
         \o "/" \o files[i].NewName
    ELSE cfg.OutputDir \o "/" \o SubDir(i) \o "/" \o files[i].NewName

\* os.Rename(src, dst), or the copy and delete of moveFile: dst replaced
Rename(d, src, dst) ==
  [p \in (DOMAIN d \ { src }) \cup { dst } |-> IF p = dst THEN d[src] ELSE d[p]]

\* os.WriteFile(dst, data, 0644)
WriteFile(d, dst, data) ==
  [p \in DOMAIN d \cup { dst } |-> IF p = dst THEN data ELSE d[p]]

\* the loop of applyChanges over the records i..n
RECURSIVE ApplyFrom(_, _, _, _, _)
ApplyFrom(d, cfg, files, i, n) ==
  IF i > n THEN d
  ELSE ApplyFrom(IF OriginalPath(cfg, files, i) = OutputPath(cfg, files, i) THEN d
                 ELSE Rename(d, OriginalPath(cfg, files, i), OutputPath(cfg, files, i)),
                 cfg, files, i + 1, n)

\* applyChanges run although -dry-run is set
ApplyChanges_ignoreDryRun ==
  /\ pc = "dryrun"
  /\ \A i \in DOMAIN audioFiles : OriginalPath(config, audioFiles, i) \in DOMAIN disk
  /\ disk' = ApplyFrom(disk, config, audioFiles, 1, Len(audioFiles))
  /\ pc' = IF config.CreateManifest THEN "manifest" ELSE "done"
  /\ ret' = ""
  /\ UNCHANGED << dir, audioFiles, fingerprints, jobs, jobsClosed, sent, workers, results,
                  resultsClosed, processed >>
  /\ UNCHANGED << ruleVars, pool, config >>

\* applyChanges moves every record's file and returns nil
ApplyChanges ==
  /\ pc = "dryrun"
  /\ ~config.DryRun
  /\ disk' = ApplyFrom(disk, config, audioFiles, 1, Len(audioFiles))
  /\ \A i \in DOMAIN audioFiles :
       OriginalPath(config, audioFiles, i) \in DOMAIN ApplyFrom(disk, config, audioFiles, 1, i - 1)
  /\ pc' = IF config.CreateManifest THEN "manifest" ELSE "done"
  /\ ret' = ""
  /\ UNCHANGED << dir, audioFiles, fingerprints, jobs, jobsClosed, sent, workers, results,
                  resultsClosed, processed >>
  /\ UNCHANGED << ruleVars, pool, config >>

\* applyChanges fails at record n + 1, the records before it moved: the
\* directory cannot be made or the file cannot be read (nothing done), or the
\* copy is written and the source cannot be removed
ApplyFails ==
  /\ pc = "dryrun"
  /\ ~config.DryRun
  /\ \E n \in 0..(Len(audioFiles) - 1) :
       /\ \A i \in 1..n :
            OriginalPath(config, audioFiles, i) \in DOMAIN ApplyFrom(disk, config, audioFiles, 1, i - 1)
       /\ OriginalPath(config, audioFiles, n + 1) # OutputPath(config, audioFiles, n + 1)
       /\ \/ disk' = ApplyFrom(disk, config, audioFiles, 1, n)
          \/ /\ OriginalPath(config, audioFiles, n + 1)
                  \in DOMAIN ApplyFrom(disk, config, audioFiles, 1, n)
             /\ disk' = WriteFile(ApplyFrom(disk, config, audioFiles, 1, n),
                                  OutputPath(config, audioFiles, n + 1),
                                  ApplyFrom(disk, config, audioFiles, 1, n)
                                    [OriginalPath(config, audioFiles, n + 1)])
  /\ pc' = "done"
  /\ ret' = "failed to apply changes"
  /\ UNCHANGED << dir, audioFiles, fingerprints, jobs, jobsClosed, sent, workers, results,
                  resultsClosed, processed >>
  /\ UNCHANGED << ruleVars, pool, config >>

\* createManifest writes manifest.json into the output directory
CreateManifest ==
  /\ pc = "manifest"
  /\ disk' = WriteFile(disk, config.OutputDir \o "/manifest.json", "manifest")
  /\ pc' = "done"
  /\ UNCHANGED << dir, audioFiles, fingerprints, jobs, jobsClosed, sent, workers, results,
                  resultsClosed, processed, ret >>
  /\ UNCHANGED << ruleVars, pool, config >>

\* os.WriteFile fails: no file, or one cut short
ManifestFails ==
  /\ pc = "manifest"
  /\ \/ UNCHANGED disk
     \/ disk' = WriteFile(disk, config.OutputDir \o "/manifest.json", "")
  /\ pc' = "done"
  /\ ret' = "failed to create manifest"
  /\ UNCHANGED << dir, audioFiles, fingerprints, jobs, jobsClosed, sent, workers, results,
                  resultsClosed, processed >>
  /\ UNCHANGED << ruleVars, pool, config >>

Next ==
  \/ ScanFiles
  \/ ScanFails
  \/ AnalyzeNothing
  \/ StartWorkers
  \/ SendJob
  \/ CloseJobs
  \/ \E w \in DOMAIN workers : RecvJob(w)
  \/ \E w \in DOMAIN workers : EmitResult(w)
  \/ \E w \in DOMAIN workers : WorkerExit(w)
  \/ CloseResults
  \/ Collect
  \/ FinishAnalyze
  \/ ParseFiles
  \/ GenerateNewNames
  \/ DisplayPreview
  \/ DryRunReturn
  \/ ApplyChanges
  \/ ApplyFails
  \/ CreateManifest
  \/ ManifestFails

Spec ==
  Init /\ [][Next]_vars

IdlePipeline ==
  /\ pc = "idle"
  /\ dir = <<>>
  /\ audioFiles = <<>>
  /\ fingerprints = <<>>
  /\ jobs = <<>>
  /\ jobsClosed = FALSE
  /\ sent = 0
  /\ workers = <<>>
  /\ results = <<>>
  /\ resultsClosed = FALSE
  /\ processed = 0
  /\ ret = ""
  /\ config = NoConfig
  /\ disk = << >>

(***************************************************************************)
(* detectDuplicates on its own, on records and a fingerprint index set up  *)
(* as the collector leaves them.                                           *)
(***************************************************************************)
DupFingerprints ==
  { "", "fp-a", "fp-b" }

\* a record as it stands after collection: nil AudioMeta for a failed file
CollectedFile(fp, failed, tags) ==
  [ NewAudioFile("file.wav") EXCEPT
      !.AudioMeta = IF failed THEN <<>> ELSE << [EmptyMeta EXCEPT !.Fingerprint = fp] >>,
      !.Tags = tags ]

\* the fingerprint a collected record carries, "" for none
FingerprintOf(af) ==
  IF af.AudioMeta = <<>> THEN "" ELSE af.AudioMeta[1].Fingerprint

\* the indices of the records that carry the fingerprint
Sharing(files, fp) ==
  { i \in DOMAIN files : FingerprintOf(files[i]) = fp }

\* the indexes the collector can have built: every non-empty fingerprint
\* keys the indices that carry it, in the order their results arrived
IndexesOf(files) ==
  LET keys == { FingerprintOf(files[i]) : i \in DOMAIN files } \ { "" }
  IN  { f \in [keys -> UNION { Orders(Sharing(files, k)) : k \in keys }] :
          \A k \in keys : f[k] \in Orders(Sharing(files, k)) }

InitDup ==
  /\ pc = "detect"
  /\ \E n \in 0..MaxDupFiles, tags \in { <<>>, << "mono" >> } :
       \E fps \in [1..n -> DupFingerprints \cup { "failed" }] :
         audioFiles = [i \in 1..n |->
                         CollectedFile(IF fps[i] = "failed" THEN "" ELSE fps[i],
                                       fps[i] = "failed", tags)]
  /\ fingerprints \in IndexesOf(audioFiles)
  /\ dir = <<>>
  /\ jobs = <<>>
  /\ jobsClosed = FALSE
  /\ sent = 0
  /\ workers = <<>>
  /\ results = <<>>
  /\ resultsClosed = FALSE
  /\ processed = 0
  /\ ret = ""
  /\ config = NoConfig
  /\ disk = << >>
  /\ IdleRules
  /\ IdlePool

\* ap.detectDuplicates()
DetectDuplicates ==
  /\ pc = "detect"
  /\ \E order \in Orders(DOMAIN fingerprints) :
       audioFiles' = detectDuplicates(audioFiles, fingerprints, order)
  /\ pc' = "detected"
  /\ UNCHANGED << dir, fingerprints, jobs, jobsClosed, sent, workers, results,
                  resultsClosed, processed, ret >>
  /\ UNCHANGED << ruleVars, pool, config, disk >>

NextDup ==
  DetectDuplicates

SpecDup ==
  InitDup /\ [][NextDup]_vars

(***************************************************************************)
(* The worker pool of analyzeAudioFiles on its own.  The jobs and results  *)
(* are counted, not told apart, so that the pool can be run with more      *)
(* files than it has workers.                                              *)
(***************************************************************************)
InitPool ==
  /\ \E total \in 0..MaxPoolFiles :
       pool = [ state |-> "start", total |-> total, sent |-> 0, jobs |-> 0,
                jobsClosed |-> FALSE, workers |-> <<>>, results |-> 0,
                resultsClosed |-> FALSE, processed |-> 0 ]
  /\ IdlePipeline
  /\ IdleRules

\* total == 0: return nil before any goroutine is started
PoolNothing ==
  /\ pool.state = "start"
  /\ pool.total = 0
  /\ pool' = [pool EXCEPT !.state = "returned"]
  /\ UNCHANGED << pipelineVars, ruleVars >>

\* the workers, the sender and the closer are started
PoolStart ==
  /\ pool.state = "start"
  /\ pool.total > 0
  /\ pool' = [pool EXCEPT !.state = "collect",
                          !.workers = [w \in 1..NumWorkers(pool.total) |-> "recv"]]
  /\ UNCHANGED << pipelineVars, ruleVars >>

PoolSendJob ==
  /\ pool.state = "collect"
  /\ pool.sent < pool.total
  /\ pool.jobs < pool.total
  /\ pool' = [pool EXCEPT !.sent = @ + 1, !.jobs = @ + 1]
  /\ UNCHANGED << pipelineVars, ruleVars >>

PoolCloseJobs ==
  /\ pool.state = "collect"
  /\ pool.sent = pool.total
  /\ ~pool.jobsClosed
  /\ pool' = [pool EXCEPT !.jobsClosed = TRUE]
  /\ UNCHANGED << pipelineVars, ruleVars >>

\* a worker receives a job and calls AnalyzeFile, which opens the file
PoolRecvJob(w) ==
  /\ pool.state = "collect"
  /\ pool.workers[w] = "recv"
  /\ pool.jobs > 0
  /\ pool' = [pool EXCEPT !.jobs = @ - 1, !.workers[w] = "extract"]
  /\ UNCHANGED << pipelineVars, ruleVars >>

\* AnalyzeFile returns, the file closed, and the worker sends its result
PoolEmitResult(w) ==
  /\ pool.state = "collect"
  /\ pool.workers[w] = "extract"
  /\ pool.results < pool.total
  /\ pool' = [pool EXCEPT !.results = @ + 1, !.workers[w] = "recv"]
  /\ UNCHANGED << pipelineVars, ruleVars >>

PoolWorkerExit(w) ==
  /\ pool.state = "collect"
  /\ pool.workers[w] = "recv"
  /\ pool.jobs = 0
  /\ pool.jobsClosed
  /\ pool' = [pool EXCEPT !.workers[w] = "exited"]
  /\ UNCHANGED << pipelineVars, ruleVars >>

PoolCloseResults ==
  /\ pool.state = "collect"
  /\ \A w \in DOMAIN pool.workers : pool.workers[w] = "exited"
  /\ ~pool.resultsClosed
  /\ pool' = [pool EXCEPT !.resultsClosed = TRUE]
  /\ UNCHANGED << pipelineVars, ruleVars >>

PoolCollect ==
  /\ pool.state = "collect"
  /\ pool.results > 0
  /\ pool' = [pool EXCEPT !.results = @ - 1, !.processed = @ + 1]
  /\ UNCHANGED << pipelineVars, ruleVars >>

PoolFinish ==
  /\ pool.state = "collect"
  /\ pool.results = 0
  /\ pool.resultsClosed
  /\ pool' = [pool EXCEPT !.state = "returned"]
  /\ UNCHANGED << pipelineVars, ruleVars >>

NextPool ==
  \/ PoolNothing
  \/ PoolStart
  \/ PoolSendJob
  \/ PoolCloseJobs
  \/ \E w \in DOMAIN pool.workers : PoolRecvJob(w)
  \/ \E w \in DOMAIN pool.workers : PoolEmitResult(w)
  \/ \E w \in DOMAIN pool.workers : PoolWorkerExit(w)
  \/ PoolCloseResults
  \/ PoolCollect
  \/ PoolFinish

SpecPool ==
  InitPool /\ [][NextPool]_vars

(***************************************************************************)
(* The rule engine on its own: InferCategory on a name put together from   *)
(* fragments.                                                              *)
(***************************************************************************)
Fragments ==
  { "fire", "gun", "shot", "Sword", "drone", "male", "wind", "atmos", "car", " ", "_" }

RECURSIVE Concat(_)
Concat(parts) ==
  IF parts = <<>> THEN "" ELSE Head(parts) \o Concat(Tail(parts))

Names ==
  { Concat(parts) : parts \in UNION { [1..n -> Fragments] : n \in 0..MaxSegs } }

InitRules ==
  /\ name \in Names
  /\ inferred = ""
  /\ rpc = "call"
  /\ IdleCall
  /\ IdlePipeline
  /\ IdlePool

\* result := InferCategory(name)
CallInferCategory ==
  /\ rpc = "call"
  /\ inferred' = InferCategory(name)
  /\ rpc' = "done"
  /\ UNCHANGED << name, call, pipelineVars, pool >>

NextRules ==
  CallInferCategory

SpecRules ==
  InitRules /\ [][NextRules]_vars

(***************************************************************************)
(* InferCategoryWithConfidence on its own, called as the tests call it:    *)
(* with a filename and a metadata pointer, nil included.                   *)
(***************************************************************************)
ConfNames ==
  { "scream_male_123.wav", "gun_shot.wav", "fire.wav", "wind_ambient.wav", "x.wav", "" }

BrightNoisy ==
  [ ZeroCrossing |-> 20, LowEnergy |-> 20, MidEnergy |-> 30, HighEnergy |-> 60,
    Centroid |-> 2500 ]

ConfMetas ==
  { <<>> } \cup
  { << [EmptyMeta EXCEPT !.Duration = d, !.Channels = c, !.HasEmbeddedTags = g # "",
                         !.Genre = g, !.SpectralFeatures = sf] >> :
      d \in { 0, 1 * Second, 2 * Second, 60 * Second }, c \in { 0, 1, 2, 6 },
      g \in { "", "Music" }, sf \in { <<>>, << BrightNoisy >> } }

InitConfidence ==
  /\ \E filename \in ConfNames, meta \in ConfMetas :
       call = [ fn |-> "InferCategoryWithConfidence", state |-> "call",
                filename |-> filename, meta |-> meta ]
  /\ name = ""
  /\ inferred = ""
  /\ rpc = "idle"
  /\ IdlePipeline
  /\ IdlePool

\* result := aa.InferCategoryWithConfidence(meta, filename)
CallInferCategoryWithConfidence ==
  /\ call.fn = "InferCategoryWithConfidence"
  /\ call.state = "call"
  /\ \E result \in InferCategoryWithConfidenceOn(call.meta, call.filename) :
       call' = [ fn |-> call.fn, state |-> "done", filename |-> call.filename,
                 meta |-> call.meta, result |-> result ]
  /\ UNCHANGED << name, inferred, rpc, pipelineVars, pool >>

NextConfidence ==
  CallInferCategoryWithConfidence

SpecConfidence ==
  InitConfidence /\ [][NextConfidence]_vars

(***************************************************************************)
(* generateFingerprint on its own, called on two metadata values.          *)
(***************************************************************************)
FingerprintMetas ==
  { [EmptyMeta EXCEPT !.SampleRate = sr, !.Channels = ch, !.BitDepth = 16,
                      !.Duration = d, !.Format = f, !.Title = t, !.Genre = g] :
      sr \in { 44100, 48000 }, ch \in { 1, 2 }, d \in { 999, 1000, 1500 },
      f \in { "WAV", "WAV|" }, t \in { "", "x", "|x" }, g \in { "", "Rock" } }

InitFingerprint ==
  /\ \E m1 \in FingerprintMetas, m2 \in FingerprintMetas :
       call = [ fn |-> "generateFingerprint", state |-> "call", m1 |-> m1, m2 |-> m2 ]
  /\ name = ""
  /\ inferred = ""
  /\ rpc = "idle"
  /\ IdlePipeline
  /\ IdlePool

\* fp1 := aa.generateFingerprint(m1); fp2 := aa.generateFingerprint(m2)
CallGenerateFingerprint ==
  /\ call.fn = "generateFingerprint"
  /\ call.state = "call"
  /\ call' = [ fn |-> call.fn, state |-> "done", m1 |-> call.m1, m2 |-> call.m2,
               fp1 |-> generateFingerprint(call.m1),
               fp2 |-> generateFingerprint(call.m2) ]
  /\ UNCHANGED << name, inferred, rpc, pipelineVars, pool >>

NextFingerprint ==
  CallGenerateFingerprint

SpecFingerprint ==
  InitFingerprint /\ [][NextFingerprint]_vars

(***************************************************************************)
(* NormalizeCategory on its own, called on one label.                      *)
(***************************************************************************)
LabelHeads ==
  { "", "unknown", "pe", "Music", "MUSIC", "ambient", "Ambient", "SFX", "sfx",
    "slow", "Time", "Loop" }

LabelTails ==
  { "", "al", "s", "_UI", "_motion", "_lapse", "motion", "_" }

Labels ==
  { h \o t : h \in LabelHeads, t \in LabelTails }

InitNormalize ==
  /\ \E cat \in Labels : call = [ fn |-> "NormalizeCategory", state |-> "call", cat |-> cat ]
  /\ name = ""
  /\ inferred = ""
  /\ rpc = "idle"
  /\ IdlePipeline
  /\ IdlePool

\* result := NormalizeCategory(cat)
CallNormalizeCategory ==
  /\ call.fn = "NormalizeCategory"
  /\ call.state = "call"
  /\ call' = [ fn |-> call.fn, state |-> "done", cat |-> call.cat,
               result |-> NormalizeCategory(call.cat) ]
  /\ UNCHANGED << name, inferred, rpc, pipelineVars, pool >>

NextNormalize ==
  CallNormalizeCategory

SpecNormalize ==
  InitNormalize /\ [][NextNormalize]_vars

(***************************************************************************)
(* generateNewNames on its own, on records as parseFiles leaves them.      *)
(***************************************************************************)
NameFileNames ==
  { "gun_BW.1.wav", "gun_BW.2.wav", "gun_01_BW.wav", "gun_BW.3.mp3", "fire.wav" }

ParsedNameFiles ==
  { parseFile(NewAudioFile(n)) : n \in NameFileNames }

PackNames ==
  { "", "HorrorPack" }

InitNames ==
  /\ \E packName \in PackNames :
       \E files \in UNION { [1..n -> ParsedNameFiles] : n \in 0..MaxNameFiles } :
         call = [ fn |-> "generateNewNames", state |-> "call", packName |-> packName,
                  files |-> files ]
  /\ name = ""
  /\ inferred = ""
  /\ rpc = "idle"
  /\ IdlePipeline
  /\ IdlePool

\* ap.generateNewNames()
CallGenerateNewNames ==
  /\ call.fn = "generateNewNames"
  /\ call.state = "call"
  /\ call' = [ fn |-> call.fn, state |-> "done", packName |-> call.packName,
               files |-> generateNewNames(call.packName, call.files) ]
  /\ UNCHANGED << name, inferred, rpc, pipelineVars, pool >>

NextNames ==
  CallGenerateNewNames

SpecNames ==
  InitNames /\ [][NextNames]_vars

(***************************************************************************)
(* InferCategoryWithConfidenceScores on its own, on names put together     *)
(* from fragments.                                                         *)
(***************************************************************************)
ScoreFragments ==
  { "loop", "Music", "car", "car_atmos", "gun", "fire", " " }

ScoreNames ==
  { Concat(parts) : parts \in UNION { [1..n -> ScoreFragments] : n \in 0..MaxSegs } }

InitScores ==
  /\ \E filename \in ScoreNames :
       call = [ fn |-> "InferCategoryWithConfidenceScores", state |-> "call",
                filename |-> filename ]
  /\ name = ""
  /\ inferred = ""
  /\ rpc = "idle"
  /\ IdlePipeline
  /\ IdlePool

\* scores := InferCategoryWithConfidenceScores(filename)
CallInferCategoryWithConfidenceScores ==
  /\ call.fn = "InferCategoryWithConfidenceScores"
  /\ call.state = "call"
  /\ call' = [ fn |-> call.fn, state |-> "done", filename |-> call.filename,
               scores |-> InferCategoryWithConfidenceScores(call.filename) ]
  /\ UNCHANGED << name, inferred, rpc, pipelineVars, pool >>

NextScores ==
  CallInferCategoryWithConfidenceScores

SpecScores ==
  InitScores /\ [][NextScores]_vars

(***************************************************************************)
(* ApplyMetadataScoring on its own: a score map, a metadata record and a   *)
(* lower-cased filename.                                                    *)
(***************************************************************************)
MetaScores ==
  { <<>>, [c \in { "SFX_Weapon" } |-> 0], [c \in { "SFX_Weapon" } |-> 2],
    [c \in { "SFX_Weapon", "Ambient" } |-> 8] }

MetaDurations ==
  { 0, 1, 2 * Second - 1, 2 * Second, 5 * Second - 1, 5 * Second, 30 * Second,
    30 * Second + 1, 60 * Second }

MetaGenres ==
  { << FALSE, "" >>, << TRUE, "" >>, << TRUE, "Pop Music" >>, << FALSE, "Music" >> }

MetaNames ==
  { "fire", "campfire_loop", "gunfire", "fire_shot", "x" }

InitMetadata ==
  /\ \E scores \in MetaScores, d \in MetaDurations, ch \in { 1, 2, 6 },
        g \in MetaGenres, filenameLower \in MetaNames :
       call = [ fn |-> "ApplyMetadataScoring", state |-> "call", scores |-> scores,
                meta |-> [EmptyMeta EXCEPT !.Duration = d, !.Channels = ch,
                                           !.HasEmbeddedTags = g[1], !.Genre = g[2]],
                filenameLower |-> filenameLower ]
  /\ name = ""
  /\ inferred = ""
  /\ rpc = "idle"
  /\ IdlePipeline
  /\ IdlePool

\* ApplyMetadataScoring(scores, meta, filenameLower)
CallApplyMetadataScoring ==
  /\ call.fn = "ApplyMetadataScoring"
  /\ call.state = "call"
  /\ call' = [ fn |-> call.fn, state |-> "done", scores |-> call.scores,
               meta |-> call.meta, filenameLower |-> call.filenameLower,
               result |-> ApplyMetadataScoring(call.scores, call.meta,
                                               call.filenameLower) ]
  /\ UNCHANGED << name, inferred, rpc, pipelineVars, pool >>

NextMetadata ==
  CallApplyMetadataScoring

SpecMetadata ==
  InitMetadata /\ [][NextMetadata]_vars

(***************************************************************************)
(* AnalyzeFile on its own: a path with an extension the scan admits and    *)
(* what the file system and the decoders make of the file.                 *)
(***************************************************************************)
AnalyzePaths ==
  { "a.wav", "B.WAV", "c.mp3", "d.flac" }

AnalyzeHeaders ==
  { <<>>,
    << [ SampleRate |-> 44100, NumChannels |-> 1, Duration |-> 0,
         Spectral |-> NoSpectral ] >>,
    << [ SampleRate |-> 44100, NumChannels |-> 1, Duration |-> 1000,
         Spectral |-> << [ ZeroCrossing |-> 20, LowEnergy |-> 150, MidEnergy |-> 50,
                           HighEnergy |-> 20, Centroid |-> 300 ] >> ] >> }

AnalyzeTags ==
  { <<>>, << [ Title |-> "Wind", Genre |-> "Ambient", Format |-> "" ] >> }

InitAnalyze ==
  /\ \E filePath \in AnalyzePaths, canOpen \in BOOLEAN, canSeek \in BOOLEAN,
        canStat \in BOOLEAN, tags \in AnalyzeTags, wav \in AnalyzeHeaders :
       call = [ fn |-> "AnalyzeFile", state |-> "call", filePath |-> filePath,
                file |-> [ canOpen |-> canOpen, canSeek |-> canSeek, canStat |-> canStat,
                           tags |-> tags, size |-> 88244, wav |-> wav ] ]
  /\ name = ""
  /\ inferred = ""
  /\ rpc = "idle"
  /\ IdlePipeline
  /\ IdlePool

\* meta, err := ap.audioAnalyzer.AnalyzeFile(j.file.OriginalPath)
CallAnalyzeFile ==
  /\ call.fn = "AnalyzeFile"
  /\ call.state = "call"
  /\ call' = [ fn |-> call.fn, state |-> "done", filePath |-> call.filePath,
               file |-> call.file, result |-> AnalyzeFile(call.filePath, call.file) ]
  /\ UNCHANGED << name, inferred, rpc, pipelineVars, pool >>

NextAnalyze ==
  CallAnalyzeFile

SpecAnalyze ==
  InitAnalyze /\ [][NextAnalyze]_vars

(***************************************************************************)
(* The selection loop of InferCategoryWithConfidence, one key of the score *)
(* map at a time, in whatever order the range over the map gives them.     *)
(***************************************************************************)
SelectNames ==
  { "scream_male_123.wav", "gun_shot.wav", "fire.wav", "x.wav" }

SelectMetas ==
  { [EmptyMeta EXCEPT !.Duration = d, !.Channels = c, !.SpectralFeatures = sf] :
      d \in { 0, 1 * Second, 60 * Second }, c \in { 1, 2 },
      sf \in { <<>>, << BrightNoisy >> } }

InitSelect ==
  /\ \E filename \in SelectNames, meta \in SelectMetas :
       LET scores == CategoryScores(meta, filename)
       IN  call = [ fn |-> "select", state |-> "range", filename |-> filename,
                    meta |-> meta, scores |-> scores, rest |-> DOMAIN scores,
                    best |-> [ bestCategory |-> "SFX", bestScore |-> 0 ] ]
  /\ name = ""
  /\ inferred = ""
  /\ rpc = "idle"
  /\ IdlePipeline
  /\ IdlePool

\* for cat, score := range scores: the next key is any key not yet visited
RangeScores ==
  /\ call.fn = "select"
  /\ call.state = "range"
  /\ \E cat \in call.rest :
       call' = [call EXCEPT !.rest = @ \ { cat },
                            !.best = SelectStep(@, cat, call.scores[cat])]
  /\ UNCHANGED << name, inferred, rpc, pipelineVars, pool >>

\* return CategoryResult{Category: bestCategory, Confidence: confidence}
ReturnResult ==
  /\ call.fn = "select"
  /\ call.state = "range"
  /\ call.rest = {}
  /\ call' = [call EXCEPT !.state = "done"]
  /\ UNCHANGED << name, inferred, rpc, pipelineVars, pool >>

NextSelect ==
  \/ RangeScores
  \/ ReturnResult

SpecSelect ==
  InitSelect /\ [][NextSelect]_vars

(***************************************************************************)
(* The fair pipeline: some goroutine that can run is always eventually     *)
(* run.  Every step of the analysis brings the return nearer, so this is   *)
(* all the scheduling the termination needs; AnalyzeFile returning is the  *)
(* step EmitResult.                                                        *)
(***************************************************************************)
\* a file that analyses and one that does not are all the termination can
\* tell apart
FairKinds ==
  { k \in FileKinds : k.file \in { WavShot, WavCorrupt } }

InitFair ==
  /\ InitPipeline
  /\ dir \in UNION { [1..n -> FairKinds] : n \in 0..MaxFiles }
  /\ IdleRules
  /\ IdlePool

\* the steps of the goroutines of analyzeAudioFiles, which the scheduler
\* runs when they can run
AnalyzeStep ==
  \/ AnalyzeNothing
  \/ StartWorkers
  \/ SendJob
  \/ CloseJobs
  \/ \E w \in DOMAIN workers : RecvJob(w)
  \/ \E w \in DOMAIN workers : EmitResult(w)
  \/ \E w \in DOMAIN workers : WorkerExit(w)
  \/ CloseResults
  \/ Collect
  \/ FinishAnalyze

FairSpec ==
  InitFair /\ [][Next]_vars /\ WF_vars(AnalyzeStep)

(***************************************************************************)
(* Properties of the pipeline.                                             *)
(***************************************************************************)
IsPrefix(s, t) ==
  Len(s) <= Len(t) /\ SubSeq(t, 1, Len(s)) = s

HasTag(af, tag) ==
  \E t \in DOMAIN af.Tags : af.Tags[t] = tag

HasGroupTag(af, count) ==
  \E n \in 1..count : HasTag(af, "duplicate-group-" \o ToString(n))

\* C1 as stated: across every stage each record's tag list only grows by
\* appending, the list before a step being a prefix of the list after it.
\* parseFile replaces the list with generateTags's, so parseFiles breaks it.
C1_Original ==
  [][\A i \in (DOMAIN audioFiles) \cap (DOMAIN audioFiles') :
       IsPrefix(audioFiles[i].Tags, audioFiles'[i].Tags)]_vars

\* C2 as stated: when the records are handed to name generation, every
\* record of a fingerprint group of two or more still carries its
\* "duplicate" and "duplicate-group-N" tags.  parseFile has dropped them.
C2_Original ==
  pc = "names" =>
    \A fp \in DOMAIN fingerprints :
      Len(fingerprints[fp]) >= 2 =>
        \A k \in DOMAIN fingerprints[fp] :
          /\ HasTag(audioFiles[fingerprints[fp][k]], "duplicate")
          /\ HasGroupTag(audioFiles[fingerprints[fp][k]], Len(audioFiles))

\* whether AnalyzeFile fails on the i-th scanned file
Failing(i) ==
  Analysis(dir[i].name, dir[i].file).err # ""

\* C3: after the analysis and the parsing, every record has a non-empty
\* Category, whatever the filename and whether the extraction failed, gave
\* partial metadata or gave complete metadata.
C3_CategoryNeverEmpty ==
  pc = "names" => \A i \in DOMAIN audioFiles : audioFiles[i].Category # ""

\* parsed records of all three outcomes, one of them with an empty
\* dash-prefix for a category
C3_Witness ==
  /\ pc = "names"
  /\ \E i, j \in DOMAIN audioFiles :
       /\ Failing(i)
       /\ audioFiles[i].AudioMeta = <<>>
       /\ audioFiles[i].Category # ""
       /\ audioFiles[j].AudioMeta # <<>>
       /\ audioFiles[j].AudioMeta[1].SampleRate = 0
       /\ audioFiles[j].Category = "SFX_"

(***************************************************************************)
(* Properties of analyzeAudioFiles.                                        *)
(***************************************************************************)
\* the file with the I/O failures taken away
Healthy(file) ==
  [file EXCEPT !.canOpen = TRUE, !.canSeek = TRUE, !.canStat = TRUE]

\* the fingerprint AnalyzeFile gives a file, "" when it fails
FingerprintOn(filePath, file) ==
  LET a == Analysis(filePath, file)
  IN  IF a.err # "" THEN "" ELSE a.meta[1].Fingerprint

\* the states analyzeAudioFiles can leave the record of an analysed file in:
\* its own metadata, category and audio tags, and the duplicate tags when
\* another record shares its fingerprint
Analysed(filePath, file, shared, total) ==
  LET a == Analysis(filePath, file)
  IN  { [NewAudioFile(filePath) EXCEPT
           !.AudioMeta = a.meta,
           !.Category = cat,
           !.Tags = GenerateAudioTags(a.meta[1]) \o dup] :
          cat \in InferCategoryWithConfidence(filePath, file),
          dup \in IF shared
                    THEN { << "duplicate", "duplicate-group-" \o ToString(k) >> :
                             k \in 1..total }
                    ELSE { <<>> } }

\* the failing record is as the scan left it and is in no fingerprint group
LeftAlone(i) ==
  /\ audioFiles[i] = NewAudioFile(dir[i].name)
  /\ \A fp \in DOMAIN fingerprints :
       \A k \in DOMAIN fingerprints[fp] : fingerprints[fp][k] # i

\* C5 as stated: the non-failing records end as in the run in which no file
\* fails.  Stated for the directories whose failures are I/O failures, where
\* that run is the one on the same files made readable.
C5_Original ==
  ( /\ pc = "parse"
    /\ \A j \in DOMAIN dir : Analysis(dir[j].name, Healthy(dir[j].file)).err = "" )
  => \A i \in DOMAIN audioFiles :
       IF Failing(i) THEN LeftAlone(i)
       ELSE audioFiles[i] \in
              Analysed(dir[i].name, dir[i].file,
                       \E j \in DOMAIN dir :
                          /\ j # i
                          /\ FingerprintOn(dir[i].name, dir[i].file) # ""
                          /\ FingerprintOn(dir[j].name, Healthy(dir[j].file))
                               = FingerprintOn(dir[i].name, dir[i].file),
                       Len(dir))

\* C5: whatever files fail, analyzeAudioFiles returns nil; a failing record
\* keeps nil AudioMeta, its tags and its Category and enters no fingerprint
\* group; a non-failing record gets its own metadata, category and audio
\* tags, and the duplicate tags exactly when another non-failing record has
\* its fingerprint.
C5_FailuresIsolated ==
  /\ ret # "failed to analyze audio files"
  /\ pc = "parse" =>
       \A i \in DOMAIN audioFiles :
         IF Failing(i) THEN LeftAlone(i)
         ELSE audioFiles[i] \in
                Analysed(dir[i].name, dir[i].file,
                         \E j \in DOMAIN dir :
                            /\ j # i
                            /\ ~Failing(j)
                            /\ FingerprintOn(dir[i].name, dir[i].file) # ""
                            /\ FingerprintOn(dir[j].name, dir[j].file)
                                 = FingerprintOn(dir[i].name, dir[i].file),
                         Len(dir))

\* analyzeAudioFiles has returned from a run with a failing and a
\* non-failing file
C5_Witness ==
  /\ pc = "parse"
  /\ processed = Len(audioFiles)
  /\ \E i, j \in DOMAIN audioFiles :
       /\ Failing(i)
       /\ ~Failing(j)
       /\ audioFiles[j].AudioMeta # <<>>

\* how many jobs or results for the index are in a channel or with a worker
InFlight(i) ==
  Cardinality({ k \in DOMAIN jobs : jobs[k] = i })
    + Cardinality({ w \in DOMAIN workers :
                      workers[w].pc = "extract" /\ workers[w].job = i })
    + Cardinality({ k \in DOMAIN results : results[k].index = i })

Extracting ==
  { w \in DOMAIN workers : workers[w].pc = "extract" }

AllExited ==
  \A w \in DOMAIN workers : workers[w].pc = "exited"

\* every index sent is in flight at most once, the others not at all; what
\* is not in flight of the sent has been collected; results is closed only
\* after all workers exited; past the analysis all N results were collected
C6_State ==
  /\ \A i \in DOMAIN audioFiles : InFlight(i) <= (IF i <= sent THEN 1 ELSE 0)
  /\ processed + Len(jobs) + Cardinality(Extracting) + Len(results) = sent
  /\ resultsClosed => AllExited
  /\ pc \in { "parse", "names", "preview", "dryrun", "manifest" }
       => processed = Len(audioFiles)

\* an index whose result was collected never comes back in flight, and
\* detectDuplicates runs when all N results were collected
C6_Step ==
  /\ \A i \in DOMAIN audioFiles :
       (i <= sent /\ InFlight(i) = 0) => InFlight(i)' = 0
  /\ (pc = "collect" /\ pc' = "parse") => processed = Len(audioFiles)

\* C6: with every AnalyzeFile call returning, analyzeAudioFiles eventually
\* returns, having collected exactly one result for every index; every
\* worker exits once jobs is closed and drained; results is closed only
\* after all workers exited; detectDuplicates runs after all N results.
C6_TerminatesOneResultPerIndex ==
  /\ []C6_State
  /\ [][C6_Step]_vars
  /\ (pc = "analyze") ~> (pc = "parse")
  /\ (pc = "collect" /\ jobsClosed /\ jobs = <<>>) ~> AllExited

\* analyzeAudioFiles has returned from a run on several files
C6_Witness ==
  /\ pc = "parse"
  /\ Len(audioFiles) >= 2
  /\ processed = Len(audioFiles)
  /\ resultsClosed
  /\ AllExited

(***************************************************************************)
(* Properties of the worker pool.                                          *)
(***************************************************************************)
PoolExtracting ==
  { w \in DOMAIN pool.workers : pool.workers[w] = "extract" }

\* C7: at every moment of analyzeAudioFiles at most min(8, N) files are in
\* extraction (AnalyzeFile holding the file open), by at most min(8, N)
\* workers, and with N = 0 there is no worker.
C7_BoundedExtraction ==
  pool.state # "idle" =>
    /\ Cardinality(PoolExtracting) <= Min2(8, pool.total)
    /\ Len(pool.workers) <= Min2(8, pool.total)
    /\ pool.total = 0 => pool.workers = <<>>

\* more files than workers, and every worker extracting
C7_Witness ==
  /\ pool.state = "collect"
  /\ pool.total > 8
  /\ Cardinality(PoolExtracting) = 8
  /\ pool.jobs > 0

(***************************************************************************)
(* Properties of detectDuplicates.                                         *)
(***************************************************************************)
\* the indices the index groups with i under a fingerprint of two or more
GroupOf(fps, i) ==
  UNION { { fps[fp][k] : k \in DOMAIN fps[fp] } :
            fp \in { f \in DOMAIN fps :
                       Len(fps[f]) > 1 /\ \E k \in DOMAIN fps[f] : fps[f][k] = i } }

\* C4: detectDuplicates appends "duplicate" and a "duplicate-group-k" tag to
\* exactly the records whose fingerprint the index holds for two or more
\* indices, leaves every other record's tags alone, and gives all records of
\* one group the same k.
C4_DuplicatesTagged ==
  [][pc = "detect" /\ pc' = "detected" =>
       /\ DOMAIN audioFiles' = DOMAIN audioFiles
       /\ \A i \in DOMAIN audioFiles :
            IF GroupOf(fingerprints, i) = {}
              THEN audioFiles'[i].Tags = audioFiles[i].Tags
              ELSE \E k \in 1..Len(audioFiles) :
                     \A j \in GroupOf(fingerprints, i) :
                       audioFiles'[j].Tags =
                         audioFiles[j].Tags \o
                           << "duplicate", "duplicate-group-" \o ToString(k) >>]_vars

\* detectDuplicates has run on three records of one fingerprint next to a
\* failed record, one without a fingerprint and one with a fingerprint of
\* its own
C4_Witness ==
  /\ pc = "detected"
  /\ \E fp \in DOMAIN fingerprints :
       /\ Len(fingerprints[fp]) = 3
       /\ \A k \in DOMAIN fingerprints[fp] :
            /\ HasTag(audioFiles[fingerprints[fp][k]], "duplicate")
            /\ HasTag(audioFiles[fingerprints[fp][k]], "duplicate-group-1")
  /\ \E i \in DOMAIN audioFiles :
       /\ audioFiles[i].AudioMeta # <<>>
       /\ GroupOf(fingerprints, i) = {}
       /\ ~HasTag(audioFiles[i], "duplicate")

(***************************************************************************)
(* Properties of the rule engine.                                          *)
(***************************************************************************)
\* the rules that match the lower-cased name, by declaration index
MatchingRules(filename) ==
  { i \in 1..Len(CategoryRules) : matchCategoryRule(ToLower(filename), CategoryRules[i]) }

WeaponRule ==
  CategoryRules[RuleIndex("SFX_Weapon")]

\* the filename contains a keyword of the rule and none of its exclusions
HasRuleKeyword(filename, rule) ==
  /\ \E k \in 1..Len(rule.Keywords) : Contains(filename, rule.Keywords[k])
  /\ \A e \in 1..Len(rule.Exclusions) : ~Contains(filename, rule.Exclusions[e])

\* C9 as stated: every filename with a keyword of the SFX_Weapon rule and no
\* exclusion keyword of it is inferred as SFX_Weapon.
C9_Original ==
  rpc = "done" /\ HasRuleKeyword(name, WeaponRule) => inferred = "SFX_Weapon"

\* C9 amended: every filename with a keyword of the SFX_Weapon rule, no
\* exclusion keyword of it, and that no rule declared before the SFX_Weapon
\* rule matches, is inferred as SFX_Weapon.
C9_WeaponUnlessEarlierRule ==
  rpc = "done" /\ HasRuleKeyword(name, WeaponRule)
    /\ (\A i \in MatchingRules(name) : i >= RuleIndex("SFX_Weapon"))
    => inferred = "SFX_Weapon"

\* a weapon name that a later-declared rule matches as well
C9_Witness ==
  /\ rpc = "done"
  /\ HasRuleKeyword(name, WeaponRule)
  /\ \A i \in MatchingRules(name) : i >= RuleIndex("SFX_Weapon")
  /\ \E i \in MatchingRules(name) : i > RuleIndex("SFX_Weapon")
  /\ inferred = "SFX_Weapon"

\* "fire" occurs as a token of its own: at each end the name ends or a
\* separator follows
StandaloneFire(nameLower) ==
  \E i \in 1..(Len(nameLower) - 3) :
    /\ SubSeq(nameLower, i, i + 3) = "fire"
    /\ i = 1 \/ SubSeq(nameLower, i - 1, i - 1) \in {" ", "_", "-", "."}
    /\ i + 3 = Len(nameLower) \/ SubSeq(nameLower, i + 4, i + 4) \in {" ", "_", "-", "."}

AmbientRule ==
  CategoryRules[RuleIndex("Ambient")]

\* the Ambient rule matches through no keyword of its own
NoAmbientKeyword(nameLower) ==
  \A k \in 1..Len(AmbientRule.Keywords) : ~Contains(nameLower, AmbientRule.Keywords[k])

\* C10 as stated: every filename with a standalone "fire" token and none of
\* gun/weapon/shot/gunfire/firearm is inferred as Ambient.
C10_Original ==
  rpc = "done" /\ StandaloneFire(ToLower(name)) /\ ~WeaponContext(ToLower(name))
    => inferred = "Ambient"

\* C10 amended: every filename whose lower-cased name is "fire", starts with
\* "fire " or ends with " fire", has none of gun/weapon/shot/gunfire/firearm
\* and is matched by no rule declared before the Ambient rule is inferred as
\* Ambient; and the Ambient rule's standalone-fire match never fires when one
\* of those weapon keywords is present.
C10_FireIsAmbient ==
  rpc = "done" =>
    LET nameLower == ToLower(name)
    IN  /\ ( /\ \/ nameLower = "fire"
                \/ HasPrefix(nameLower, "fire ")
                \/ HasSuffix(nameLower, " fire")
             /\ ~WeaponContext(nameLower)
             /\ \A i \in MatchingRules(name) : i >= RuleIndex("Ambient") )
           => inferred = "Ambient"
        /\ WeaponContext(nameLower) /\ NoAmbientKeyword(nameLower)
           => ~matchCategoryRule(nameLower, AmbientRule)

\* a name with a leading "fire " and no Ambient keyword, inferred as Ambient
C10_Witness ==
  /\ rpc = "done"
  /\ HasPrefix(ToLower(name), "fire ")
  /\ Len(name) > 5
  /\ NoAmbientKeyword(ToLower(name))
  /\ ~WeaponContext(ToLower(name))
  /\ inferred = "Ambient"

(***************************************************************************)
(* Properties of InferCategoryWithConfidence.                              *)
(***************************************************************************)
\* the call has returned or panicked
ConfidenceDone ==
  call.fn = "InferCategoryWithConfidence" /\ call.state = "done"

\* the score map the returned call selected from
ReturnedScores ==
  CategoryScores(call.meta[1], call.filename)

\* C11: whenever InferCategoryWithConfidence returns, the Confidence is
\* max(0.3, min(bestScore/1.5, 1.0)), between 0.3 and 1.0 (9 and 30
\* thirtieths); with an empty score map the result is "SFX" with exactly 0.3.
C11_ConfidenceInRange ==
  (ConfidenceDone /\ ~call.result.panic) =>
    /\ call.result.Confidence >= 9
    /\ call.result.Confidence <= 30
    /\ call.result.Confidence
         = Max2(9, Min2(2 * BestScore(ReturnedScores), 30))
    /\ DOMAIN ReturnedScores = {} =>
         call.result.Category = "SFX" /\ call.result.Confidence = 9

\* returned calls on an empty map, on a best score under the floor and on one
\* over the cap
C11_Witness ==
  /\ ConfidenceDone
  /\ ~call.result.panic
  /\ \/ DOMAIN ReturnedScores = {} /\ call.result.Category = "SFX"
     \/ BestScore(ReturnedScores) > 15 /\ call.result.Confidence = 30
     \/ BestScore(ReturnedScores) \in 1..4 /\ call.result.Confidence = 9

\* C12 as stated: with nil Metadata the call returns normally a pair computed
\* from the filename rule scores alone.  The code reads meta.SpectralFeatures
\* through the nil pointer and panics.
C12_Original ==
  (ConfidenceDone /\ call.meta = <<>>) =>
    /\ ~call.result.panic
    /\ call.result \in SelectFrom(InferCategoryWithConfidenceScores(call.filename))

\* C15: when the filename's rules are all of one category, every other
\* category's score is strictly below that category's and that category's
\* score is at least 0.75, the call returns that category with a Confidence
\* of at least 0.5; so for "scream_male_123.wav" with 2 s mono (SFX_Voice)
\* and "gun_shot.wav" with 1 s mono (SFX_Weapon).
C15_SingleCategoryWins ==
  (ConfidenceDone /\ ~call.result.panic) =>
    /\ \A c \in DOMAIN InferCategoryWithConfidenceScores(call.filename) :
         ( /\ DOMAIN InferCategoryWithConfidenceScores(call.filename) = { c }
           /\ \A d \in DOMAIN ReturnedScores \ { c } :
                ReturnedScores[d] < ReturnedScores[c]
           /\ 10 * ReturnedScores[c] >= 75 )
         => call.result.Category = c /\ call.result.Confidence >= 15
    /\ ( /\ call.filename = "scream_male_123.wav"
         /\ call.meta[1] = [EmptyMeta EXCEPT !.Duration = 2 * Second, !.Channels = 1] )
       => call.result.Category = "SFX_Voice" /\ call.result.Confidence >= 15
    /\ ( /\ call.filename = "gun_shot.wav"
         /\ call.meta[1] = [EmptyMeta EXCEPT !.Duration = 1 * Second, !.Channels = 1] )
       => call.result.Category = "SFX_Weapon" /\ call.result.Confidence >= 15

\* the weapon example of the test has returned
C15_Witness ==
  /\ ConfidenceDone
  /\ call.filename = "gun_shot.wav"
  /\ call.meta = << [EmptyMeta EXCEPT !.Duration = 1 * Second, !.Channels = 1] >>
  /\ DOMAIN InferCategoryWithConfidenceScores(call.filename) = { "SFX_Weapon" }
  /\ ReturnedScores["SFX_UI"] = 6
  /\ call.result.Category = "SFX_Weapon"
  /\ call.result.Confidence = 16

(***************************************************************************)
(* Properties of generateFingerprint.                                      *)
(***************************************************************************)
FingerprintDone ==
  call.fn = "generateFingerprint" /\ call.state = "done"

\* the fields the fingerprint is made of, the duration in whole seconds
FingerprintTuple(meta) ==
  << meta.SampleRate, meta.Channels, meta.BitDepth, meta.Duration \div Second,
     meta.Format, meta.Title >>

\* C13 as stated: the fingerprints are equal if and only if the tuples are.
\* A "|" inside Format lets two different tuples give one delimited string.
C13_Original ==
  FingerprintDone =>
    ( call.fp1 = call.fp2 <=> FingerprintTuple(call.m1) = FingerprintTuple(call.m2) )

\* C13 amended: equal tuples give equal fingerprints whatever the other
\* fields are, and when neither Format contains "|" equal fingerprints come
\* only from equal tuples.
C13_FingerprintOfTuple ==
  FingerprintDone =>
    /\ FingerprintTuple(call.m1) = FingerprintTuple(call.m2) => call.fp1 = call.fp2
    /\ ( /\ ~Contains(call.m1.Format, "|")
         /\ ~Contains(call.m2.Format, "|")
         /\ call.fp1 = call.fp2 )
       => FingerprintTuple(call.m1) = FingerprintTuple(call.m2)

\* two metadata values that differ in a field outside the tuple and in the
\* fraction of the second, with a "|" in the title, and one fingerprint
C13_Witness ==
  /\ FingerprintDone
  /\ call.m1.Genre # call.m2.Genre
  /\ call.m1.Duration # call.m2.Duration
  /\ call.m1.Title = "|x"
  /\ ~Contains(call.m1.Format, "|")
  /\ call.fp1 = call.fp2

(***************************************************************************)
(* Properties of NormalizeCategory.                                        *)
(***************************************************************************)
NormalizeDone ==
  call.fn = "NormalizeCategory" /\ call.state = "done"

IsTableKey(cat) ==
  \E k \in DOMAIN CategoryNormalization : k = ToUpper(cat)

\* C14 as stated: a label outside the table is prefixed whenever it has no
\* underscore and is not "MUSIC" or "AMBIENT".  The code leaves every label
\* that merely contains MUSIC or AMBIENT as it is.
C14_Original ==
  NormalizeDone =>
    call.result =
      IF IsTableKey(call.cat) THEN CategoryNormalization[ToUpper(call.cat)]
      ELSE IF /\ ~Contains(call.cat, "_")
              /\ ToUpper(call.cat) \notin { "MUSIC", "AMBIENT" }
        THEN "SFX_" \o ToUpper(call.cat)
      ELSE call.cat

\* C14 amended: the table value for a key; otherwise "SFX_" and the
\* upper-cased label when that contains neither "_" nor MUSIC nor AMBIENT;
\* otherwise the label as given.
C14_NormalizeCategory ==
  NormalizeDone =>
    /\ IsTableKey(call.cat) => call.result = CategoryNormalization[ToUpper(call.cat)]
    /\ ( /\ ~IsTableKey(call.cat)
         /\ \A part \in { "_", "MUSIC", "AMBIENT" } : ~Contains(ToUpper(call.cat), part) )
       => call.result = "SFX_" \o ToUpper(call.cat)
    /\ ( /\ ~IsTableKey(call.cat)
         /\ \E part \in { "_", "MUSIC", "AMBIENT" } : Contains(ToUpper(call.cat), part) )
       => call.result = call.cat

\* a mixed-case label without underscore that contains MUSIC, is no key and
\* comes back as given
C14_Witness ==
  /\ NormalizeDone
  /\ call.cat = "Musical"
  /\ ~IsTableKey(call.cat)
  /\ call.result = "Musical"

(***************************************************************************)
(* Properties of generateNewNames.                                         *)
(***************************************************************************)
NamesDone ==
  call.fn = "generateNewNames" /\ call.state = "done"

\* C16 as stated: after generateNewNames no two records have the same
\* NewName.  A record whose own base name ends in _01 meets the number
\* given to the second of two colliding records.
C16_Original ==
  NamesDone =>
    \A i, j \in DOMAIN call.files :
      i # j => call.files[i].NewName # call.files[j].NewName

(***************************************************************************)
(* Properties of Process under -dry-run.                                   *)
(***************************************************************************)
Returned ==
  pc = "done"

\* C17 as stated: with DryRun set the disk is never touched, the manifest
\* step is never reached and Process returns nil.  A failing scan makes
\* Process return the scan's error, in a dry run as in any other.
C17_Original ==
  config.DryRun =>
    /\ disk = DiskOf(config, dir)
    /\ pc # "manifest"
    /\ Returned => ret = ""

\* C17 amended: with DryRun set no file is moved, renamed, created or
\* deleted and no manifest is written, applyChanges and createManifest are
\* never reached, and Process returns nil after scan, analysis, parsing,
\* naming and preview, or the scan's error when the scan fails.
C17_DryRunTouchesNothing ==
  config.DryRun =>
    /\ disk = DiskOf(config, dir)
    /\ pc # "manifest"
    /\ Returned => ret \in { "", "failed to scan files" }
    /\ Returned /\ ret = "" =>
         /\ Len(audioFiles) = Len(dir)
         /\ \A i \in DOMAIN audioFiles :
              /\ audioFiles[i].Category # ""
              /\ audioFiles[i].NewName # ""

\* a dry run with the manifest asked for has returned nil: two files have
\* their new names, and both still lie where they were
C17_Witness ==
  /\ config.DryRun
  /\ config.CreateManifest
  /\ Returned
  /\ ret = ""
  /\ Len(audioFiles) = 2
  /\ \A i \in DOMAIN audioFiles :
       /\ audioFiles[i].NewName # audioFiles[i].OriginalName
       /\ OriginalPath(config, audioFiles, i) \in DOMAIN disk
       /\ OutputPath(config, audioFiles, i) \notin DOMAIN disk

(***************************************************************************)
(* Properties of the collection of results.                                *)
(***************************************************************************)
\* the records as the scan leaves them
Scanned ==
  [i \in DOMAIN dir |-> NewAudioFile(dir[i].name)]

\* the outcomes of a run that analyses file i, applies its result, and goes
\* on to file i + 1
RECURSIVE SequentialFrom(_, _, _)
SequentialFrom(files, fps, i) ==
  IF i > Len(files) THEN { [ files |-> files, fps |-> fps ] }
  ELSE UNION { LET result == WorkerResult(i, cat)
               IN  IF result.err # "" THEN SequentialFrom(files, fps, i + 1)
                   ELSE SequentialFrom(
                          [files EXCEPT ![i] = ApplyResult(files[i], result)],
                          IF result.meta # <<>> /\ result.meta[1].Fingerprint # ""
                            THEN TrackFingerprint(fps, result.meta[1].Fingerprint, i)
                            ELSE fps,
                          i + 1) : cat \in WorkerCategories(i) }

IndexSet(indices) ==
  { indices[k] : k \in DOMAIN indices }

\* the same keys, and under each key the same indices, each once
SameIndexSets(fps1, fps2) ==
  /\ DOMAIN fps1 = DOMAIN fps2
  /\ \A fp \in DOMAIN fps1 :
       /\ IndexSet(fps1[fp]) = IndexSet(fps2[fp])
       /\ Len(fps1[fp]) = Len(fps2[fp])

\* the results channel is closed and drained, detectDuplicates not yet run
Collected ==
  pc = "collect" /\ results = <<>> /\ resultsClosed

C18_State ==
  /\ \A k \in DOMAIN results :
       \E cat \in WorkerCategories(results[k].index) :
         results[k] = WorkerResult(results[k].index, cat)
  /\ Collected =>
       \E run \in SequentialFrom(Scanned, << >>, 1) :
         /\ audioFiles = run.files
         /\ SameIndexSets(fingerprints, run.fps)

C18_Step ==
  (pc = "collect" /\ results # <<>>) =>
    \A i \in DOMAIN audioFiles :
      i # Head(results).index => audioFiles'[i] = audioFiles[i]

\* C18: whatever the order in which the results arrive, the result of job i
\* is applied to record i and to no other, and after the collection the
\* records (AudioMeta, Category, audio tags) and the set of indices under
\* each fingerprint are those of a run over the files one by one in input
\* order.
C18_ArrivalOrderIrrelevant ==
  []C18_State /\ [][C18_Step]_vars

\* the collection is over and the result of the second file was collected
\* before that of the first: the index lists them in that order
C18_Witness ==
  /\ Collected
  /\ Len(audioFiles) = 2
  /\ audioFiles[1].AudioMeta # <<>>
  /\ audioFiles[2].AudioMeta # <<>>
  /\ \E fp \in DOMAIN fingerprints : fingerprints[fp] = << 2, 1 >>

(***************************************************************************)
(* Who writes the records and the fingerprint index.                       *)
(***************************************************************************)
\* the workers that have received the job of record i and not yet sent its
\* result
Holding(i) ==
  { w \in DOMAIN workers : workers[w].pc = "extract" /\ workers[w].job = i }

\* the records a step writes
Written ==
  { i \in DOMAIN audioFiles : audioFiles'[i] # audioFiles[i] }

\* a step of a worker goroutine: a receive, a send or the exit
WorkerStep ==
  workers' # workers

\* a step of the goroutine that runs the collector's loop
CollectorStep ==
  processed' # processed \/ pc' # pc

C19_State ==
  \A i \in DOMAIN audioFiles : Cardinality(Holding(i)) <= 1

C19_Step ==
  pc = "collect" =>
    /\ WorkerStep => audioFiles' = audioFiles /\ fingerprints' = fingerprints
    /\ (audioFiles' # audioFiles \/ fingerprints' # fingerprints) => CollectorStep
    /\ \A i \in Written :
         /\ Holding(i) = {}
         /\ \A k \in DOMAIN jobs : jobs[k] # i
         /\ i <= sent

\* C19: during analyzeAudioFiles the records and the fingerprint index are
\* written by the collector only, never in a step of a worker; record i is
\* written only when its job has been sent and no worker holds it any more;
\* no two workers hold the same record.
C19_OnlyCollectorWrites ==
  []C19_State /\ [][C19_Step]_vars

\* the collector has written the first record while a worker still holds
\* the second
C19_Witness ==
  /\ pc = "collect"
  /\ Len(audioFiles) = 2
  /\ audioFiles[1].AudioMeta # <<>>
  /\ Holding(2) # {}

(***************************************************************************)
(* Open file handles.                                                      *)
(***************************************************************************)
\* the handles the workers hold
OpenHandles ==
  UNION { workers[w].open : w \in DOMAIN workers }

\* the return paths of AnalyzeFile taken by the files collected so far
ErrorsSeen ==
  { Analysis(dir[i].name, dir[i].file).err :
      i \in { j \in DOMAIN dir : j <= sent /\ InFlight(j) = 0 } }

\* C20: the file AnalyzeFile opens is closed whenever it returns: a worker
\* that waits for its next job or has exited holds no handle, a worker in
\* AnalyzeFile holds at most the handle of its own job, and no handle is
\* open once analyzeAudioFiles has returned.
C20_HandlesClosed ==
  /\ \A w \in DOMAIN workers :
       /\ workers[w].pc \in { "recv", "exited" } => workers[w].open = {}
       /\ workers[w].pc = "extract" => workers[w].open \subseteq { workers[w].job }
  /\ pc # "collect" => OpenHandles = {}

\* analyzeAudioFiles has returned after a file whose seek failed and a .wav
\* file with an invalid container were opened and analysed
C20_Witness ==
  /\ pc = "parse"
  /\ processed = 2
  /\ ErrorsSeen = { "failed to seek file", "failed to analyze WAV" }
  /\ \A i \in DOMAIN dir : dir[i].file.canOpen
  /\ OpenHandles = {}

(***************************************************************************)
(* Priority and declaration order.                                         *)
(***************************************************************************)
\* no rule has a higher Priority than a rule declared before it
DeclaredByPriority ==
  \A i, j \in 1..Len(CategoryRules) :
    i < j => CategoryRules[i].Priority >= CategoryRules[j].Priority

\* the category belongs to a matching rule of the highest Priority among the
\* matching rules
OfMaximalPriority(category, matching) ==
  \E i \in matching :
    /\ CategoryRules[i].Category = category
    /\ \A j \in matching : CategoryRules[i].Priority >= CategoryRules[j].Priority

\* C21 as stated: the rules are declared in non-increasing Priority order,
\* so the category InferCategory returns belongs to a rule of maximal
\* Priority among the rules that match the name.  The Ambient rule
\* (Priority 9) is declared after the SFX_Voice and SFX_Creature rules
\* (Priority 8), and the list is not sorted before it is scanned.
C21_Original ==
  rpc = "done" =>
    /\ DeclaredByPriority
    /\ MatchingRules(name) # {} => OfMaximalPriority(inferred, MatchingRules(name))

(***************************************************************************)
(* The keyword "fire" and the SFX_Weapon rule.                             *)
(***************************************************************************)
\* "fire_" or "_fire" occurs in the name
FireCompound(nameLower) ==
  Contains(nameLower, "fire_") \/ Contains(nameLower, "_fire")

\* C22 as stated: a name with "fire" and a weapon keyword or a fire-compound
\* token matches the SFX_Weapon rule, "fire_blast" and "laser_fire"
\* included.  "fire" is not among the Keywords of the rule, so the branch
\* for it is never taken and a fire-compound alone matches nothing.
C22_Original ==
  ( /\ rpc = "done"
    /\ Contains(ToLower(name), "fire")
    /\ WeaponContext(ToLower(name)) \/ FireCompound(ToLower(name)) )
  => matchCategoryRule(ToLower(name), WeaponRule)

(***************************************************************************)
(* Properties of InferCategoryWithConfidenceScores.                        *)
(***************************************************************************)
ScoresDone ==
  call.fn = "InferCategoryWithConfidenceScores" /\ call.state = "done"

\* the sum of the Confidence weights of the rules with the given indices
RECURSIVE SumConfidence(_)
SumConfidence(indices) ==
  IF indices = {} THEN 0
  ELSE LET i == CHOOSE k \in indices : TRUE
       IN  CategoryRules[i].Confidence + SumConfidence(indices \ { i })

\* the matching rules of a category
MatchingOf(filename, category) ==
  { i \in MatchingRules(filename) : CategoryRules[i].Category = category }

\* an exclusion keyword of the rule occurs in the name
Excluded(filename, rule) ==
  \E e \in 1..Len(rule.Exclusions) : Contains(ToLower(filename), rule.Exclusions[e])

\* C23: the score map has an entry exactly for the categories with a
\* matching rule, the entry being the sum of the Confidence weights of the
\* matching rules of that category; a rule with an exclusion keyword in the
\* name matches nothing, whatever its keywords.
C23_ScoresAreSums ==
  ScoresDone =>
    /\ DOMAIN call.scores =
         { CategoryRules[i].Category : i \in MatchingRules(call.filename) }
    /\ \A c \in DOMAIN call.scores :
         call.scores[c] = SumConfidence(MatchingOf(call.filename, c))
    /\ \A i \in 1..Len(CategoryRules) :
         Excluded(call.filename, CategoryRules[i]) => i \notin MatchingRules(call.filename)

\* both Music rules match and add up, and the SFX_Vehicle rule, whose
\* keyword "car" occurs, is excluded by "atmos" and has no entry
C23_Witness ==
  /\ ScoresDone
  /\ Cardinality(MatchingOf(call.filename, "Music")) = 2
  /\ call.scores["Music"] = 16
  /\ Contains(ToLower(call.filename), "car")
  /\ Excluded(call.filename, CategoryRules[RuleIndex("SFX_Vehicle")])
  /\ "SFX_Vehicle" \notin DOMAIN call.scores

(***************************************************************************)
(* C24, C25: the duration block of ApplyMetadataScoring.                   *)
(***************************************************************************)
MetadataDone ==
  call.fn = "ApplyMetadataScoring" /\ call.state = "done"

\* what the same call gives for a metadata record without a duration
WithoutDuration ==
  ApplyMetadataScoring(call.scores, [call.meta EXCEPT !.Duration = 0],
                       call.filenameLower)

\* what the duration added to a category
DurationAdds(c) ==
  ScoreOf(call.result, c) - ScoreOf(WithoutDuration, c)

GenreIsMusic ==
  call.meta.HasEmbeddedTags /\ Contains(ToLower(call.meta.Genre), "music")

LongFire ==
  /\ call.meta.Duration > 30 * Second
  /\ Contains(call.filenameLower, "fire")
  /\ \A k \in { "gun", "weapon", "shot", "gunfire", "firearm" } :
       ~Contains(call.filenameLower, k)

ScoredCategories ==
  DOMAIN call.result \cup DOMAIN WithoutDuration
    \cup { "SFX_UI", "SFX", "Ambient", "Music", "SFX_Weapon" }

\* C24: ApplyMetadataScoring applies exactly one duration bucket: a duration
\* under 2s adds 0.6 to SFX_UI and nothing to SFX, one from 2s to under 5s adds
\* 0.4 to SFX only, one over 30s adds 0.5 to Ambient and 0.6 to Music when the
\* embedded genre contains "music", and a duration of zero or from 5s to 30s
\* adds nothing to any category.
C24_OneDurationBucket ==
  MetadataDone =>
    LET d == call.meta.Duration
    IN  /\ (0 < d /\ d < 2 * Second) =>
             \A c \in ScoredCategories : DurationAdds(c) = IF c = "SFX_UI" THEN 6 ELSE 0
        /\ (2 * Second <= d /\ d < 5 * Second) =>
             \A c \in ScoredCategories : DurationAdds(c) = IF c = "SFX" THEN 4 ELSE 0
        /\ d > 30 * Second =>
             /\ DurationAdds("Ambient") = IF LongFire THEN 9 ELSE 5
             /\ DurationAdds("Music") = IF GenreIsMusic THEN 6 ELSE 0
             /\ \A c \in ScoredCategories \ { "Ambient", "Music", "SFX_Weapon" } :
                  DurationAdds(c) = 0
        /\ (d = 0 \/ (5 * Second <= d /\ d <= 30 * Second)) =>
             call.result = WithoutDuration

C24_Witness ==
  /\ MetadataDone
  /\ call.meta.Duration = 60 * Second
  /\ GenreIsMusic
  /\ ~LongFire
  /\ DurationAdds("Ambient") = 5
  /\ DurationAdds("Music") = 6

\* C25: with a duration over 30s and a filename that contains "fire" and none
\* of gun, weapon, shot, gunfire, firearm, ApplyMetadataScoring adds 0.4 more
\* to Ambient and takes 0.3 off an SFX_Weapon score that is there (above
\* zero), without a floor: the score can end below zero, where the selection
\* no longer considers it.  In every other case SFX_Weapon is left as it was.
C25_LongFirePenalty ==
  MetadataDone =>
    LET before == ScoreOf(call.scores, "SFX_Weapon")
        after  == ScoreOf(call.result, "SFX_Weapon")
    IN  /\ LongFire =>
             /\ DurationAdds("Ambient") = 5 + 4
             /\ before > 0 => after = before - 3
             /\ before <= 0 => after = before
             /\ after < 0 => "SFX_Weapon" \notin BestCategories(call.result)
        /\ ~LongFire => after = before
        /\ ("SFX_Weapon" \in DOMAIN call.result) = ("SFX_Weapon" \in DOMAIN call.scores)

C25_Witness ==
  /\ MetadataDone
  /\ LongFire
  /\ ScoreOf(call.scores, "SFX_Weapon") = 2
  /\ ScoreOf(call.result, "SFX_Weapon") = -1
  /\ DurationAdds("Ambient") = 9

(***************************************************************************)
(* C26: the errors of AnalyzeFile.                                         *)
(***************************************************************************)
AnalyzeDone ==
  call.fn = "AnalyzeFile" /\ call.state = "done"

IsWavPath ==
  ToLower(Ext(call.filePath)) = ".wav"

\* the file opens and the seek back to its start succeeds
Readable ==
  call.file.canOpen /\ call.file.canSeek

InvalidContainer ==
  Readable /\ IsWavPath /\ call.file.wav = <<>>

\* analyzeWAV falls back on file.Stat for the duration, and Stat fails
StatFails ==
  /\ Readable
  /\ IsWavPath
  /\ call.file.wav # <<>>
  /\ call.file.wav[1].SampleRate > 0
  /\ call.file.wav[1].Duration <= 0
  /\ ~call.file.canStat

Parsed ==
  \/ pc \in { "names", "preview", "dryrun", "manifest" }
  \/ pc = "done" /\ ret # "failed to scan files"

\* the category and the subcategory parseFile reads off each name
NameCategories ==
  { << k.name, parseName(k.name) >> : k \in FileKinds }

FingerprintOnlyOfWav ==
  \A filePath \in AnalyzePaths, canOpen \in BOOLEAN, canSeek \in BOOLEAN,
     canStat \in BOOLEAN, tags \in AnalyzeTags, wav \in AnalyzeHeaders :
    LET a == AnalyzeFile(filePath, [ canOpen |-> canOpen, canSeek |-> canSeek,
                                     canStat |-> canStat, tags |-> tags,
                                     size |-> 88244, wav |-> wav ])
    IN  /\ a.err = "" =>
            (a.meta[1].Fingerprint # "") = (ToLower(Ext(filePath)) = ".wav")
        /\ (ToLower(Ext(filePath)) = ".wav" /\ a.err = "") => wav # <<>>

\* the file of record i is compressed, or its extraction fails
NoWavResult(i) ==
  \/ ToLower(Ext(dir[i].name)) # ".wav"
  \/ Analysis(dir[i].name, dir[i].file).err # ""

Indexed(i) ==
  \E fp \in DOMAIN fingerprints : i \in IndexSet(fingerprints[fp])

HasDuplicateTag(af) ==
  \E k \in DOMAIN af.Tags : HasPrefix(af.Tags[k], "duplicate")

\* C28: a record has a non-empty Fingerprint only if its file took the .wav
\* path and analyzeWAV succeeded; the record of a compressed file and the
\* record of a failed extraction are never in the fingerprint index and never
\* get a "duplicate" or "duplicate-group-N" tag.
C28_FingerprintOnlyOfWav ==
  /\ FingerprintOnlyOfWav
  /\ \A i \in 1..Len(audioFiles) :
       /\ FingerprintOf(audioFiles[i]) # "" =>
            /\ ToLower(Ext(audioFiles[i].OriginalName)) = ".wav"
            /\ Analysis(dir[i].name, dir[i].file).err = ""
            /\ dir[i].file.wav # <<>>
       /\ NoWavResult(i) =>
            /\ FingerprintOf(audioFiles[i]) = ""
            /\ ~Indexed(i)
            /\ ~HasDuplicateTag(audioFiles[i])

\* two compressed files with the same metadata, past detectDuplicates
C28_Witness ==
  /\ pc = "parse"
  /\ Len(audioFiles) = 2
  /\ \A i \in 1..2 : ToLower(Ext(audioFiles[i].OriginalName)) = ".mp3"
  /\ audioFiles[1].AudioMeta # <<>>
  /\ audioFiles[1].AudioMeta = audioFiles[2].AudioMeta
  /\ fingerprints = << >>
  /\ \A i \in 1..2 : ~HasDuplicateTag(audioFiles[i])

(***************************************************************************)
(* C29: the fingerprint index while and after the results are collected.   *)
(***************************************************************************)
\* how often index i is listed under fingerprint fp
Listed(fp, i) ==
  Cardinality({ k \in DOMAIN fingerprints[fp] : fingerprints[fp][k] = i })

TagCount(af, prefix) ==
  Cardinality({ k \in DOMAIN af.Tags : HasPrefix(af.Tags[k], prefix) })

\* C29: at every point during and after the collection each record index
\* occurs at most once in the whole fingerprint index, no key of the index is
\* the empty string, and index i is listed under fingerprint f exactly when
\* the successful result of record i has been collected and its fingerprint
\* is f; detectDuplicates then gives a record at most one "duplicate" tag and
\* one group tag.
C29_IndexOfCollected ==
  /\ "" \notin DOMAIN fingerprints
  /\ \A fp \in DOMAIN fingerprints :
       /\ fingerprints[fp] # << >>
       /\ IndexSet(fingerprints[fp]) \subseteq 1..Len(audioFiles)
  /\ \A i \in 1..Len(audioFiles) :
       /\ \A fp \in DOMAIN fingerprints :
            /\ Listed(fp, i) <= 1
            /\ (Listed(fp, i) = 1) = (FingerprintOf(audioFiles[i]) = fp)
       /\ FingerprintOf(audioFiles[i]) # "" =>
            FingerprintOf(audioFiles[i]) \in DOMAIN fingerprints
       /\ TagCount(audioFiles[i], "duplicate") <= 2
       /\ TagCount(audioFiles[i], "duplicate-group-") <= 1
       /\ Cardinality({ k \in DOMAIN audioFiles[i].Tags :
                          audioFiles[i].Tags[k] = "duplicate" }) <= 1

\* the second record is in the index while the result of the first, which
\* has the same fingerprint, is still to be collected
C29_Witness ==
  /\ pc = "collect"
  /\ Len(results) = 1
  /\ results[1].index = 1
  /\ results[1].err = ""
  /\ \E fp \in DOMAIN fingerprints :
       /\ fingerprints[fp] = << 2 >>
       /\ results[1].meta[1].Fingerprint = fp
  /\ audioFiles[1].AudioMeta = <<>>
  /\ audioFiles[2].AudioMeta # <<>>

(***************************************************************************)
(* C30: the selection under every iteration order of the score map.        *)
(***************************************************************************)
SelectDone ==
  call.fn = "select" /\ call.state = "done"

\* the categories that attain the highest score above zero
Maximal ==
  { c \in DOMAIN call.scores :
      call.scores[c] > 0 /\ \A d \in DOMAIN call.scores : call.scores[d] <= call.scores[c] }

\* C30: for a fixed filename and metadata the Confidence is the same under
\* every iteration order of the score map (it is the confidence of the highest
\* score), and the Category is the same under every order when exactly one
\* category attains the highest positive score; the Category can differ
\* between runs only among categories that share the highest score.
C30_OnlyTiesDiffer ==
  SelectDone =>
    /\ call.best.bestScore = BestScore(call.scores)
    /\ Confidence(call.best.bestScore) = Confidence(BestScore(call.scores))
    /\ Maximal = {} => call.best.bestCategory = "SFX"
    /\ Maximal # {} => call.best.bestCategory \in Maximal
    /\ Cardinality(Maximal) = 1 => Maximal = { call.best.bestCategory }
    /\ [ panic |-> FALSE, Category |-> call.best.bestCategory,
         Confidence |-> Confidence(call.best.bestScore) ]
         \in InferCategoryWithConfidenceOn(<< call.meta >>, call.filename)

\* two categories share the highest score, and this run returned the one
\* that another order would not
C30_Witness ==
  /\ SelectDone
  /\ Cardinality(Maximal) >= 2
  /\ call.best.bestCategory # (CHOOSE c \in Maximal : TRUE)

====
